---- MODULE Spec2Model ----
(***************************************************************************)
(* Streamarr Jellyfin plugin: the resolver client's catalog cache          *)
(* (StreamarrApiClient) and the configuration snapshot that invalidates    *)
(* it.  Strings are sequences of one-character strings, so that Trim,      *)
(* ToLowerInvariant, Contains and the OrdinalIgnoreCase comparisons are    *)
(* computed as the code computes them.                                     *)
(***************************************************************************)
EXTENDS Integers, Sequences, FiniteSets, TLC

----------------------------------------------------------------------------
(* References and strings *)

\* the null string reference
NULL == <<"<null>">>
\* the null array reference (configuration.EnabledProviders = null)
NullArray == << <<"<null-array>">> >>
\* an absent reference (T?) and a present one
None == <<>>
Some(x) == <<x>>

UpperChars == <<"A","B","C","D","E","F","G","H","I","J","K","L","M","N","O","P","Q","R","S","T","U","V","W","X","Y","Z">>
LowerChars == <<"a","b","c","d","e","f","g","h","i","j","k","l","m","n","o","p","q","r","s","t","u","v","w","x","y","z">>

LowerChar(c) ==
  IF \E i \in 1..Len(UpperChars) : UpperChars[i] = c
  THEN LowerChars[CHOOSE i \in 1..Len(UpperChars) : UpperChars[i] = c]
  ELSE c

\* string.ToLowerInvariant
ToLowerInvariant(s) == [i \in 1..Len(s) |-> LowerChar(s[i])]

\* string.IsNullOrWhiteSpace
IsNullOrWhiteSpace(s) == s = NULL \/ \A i \in 1..Len(s) : s[i] = " "

\* string.IsNullOrEmpty
IsNullOrEmpty(s) == s = NULL \/ s = <<>>

\* string.Trim
RECURSIVE TrimStart(_)
TrimStart(s) == IF s # <<>> /\ Head(s) = " " THEN TrimStart(Tail(s)) ELSE s
RECURSIVE TrimEnd(_)
TrimEnd(s) == IF s # <<>> /\ s[Len(s)] = " " THEN TrimEnd(SubSeq(s, 1, Len(s) - 1)) ELSE s
Trim(s) == TrimEnd(TrimStart(s))

\* string.Equals(a, b, StringComparison.OrdinalIgnoreCase); two nulls are equal
EqualsIgnoreCase(a, b) ==
  IF a = NULL \/ b = NULL THEN a = b ELSE ToLowerInvariant(a) = ToLowerInvariant(b)

\* string.Contains(sub, StringComparison.Ordinal)
ContainsOrdinal(s, sub) ==
  \E i \in 1..(Len(s) - Len(sub) + 1) : SubSeq(s, i, i + Len(sub) - 1) = sub

\* string.Contains(sub, StringComparison.OrdinalIgnoreCase)
ContainsIgnoreCase(s, sub) == ContainsOrdinal(ToLowerInvariant(s), ToLowerInvariant(sub))

\* string.EndsWith(suffix, StringComparison.Ordinal)
EndsWithOrdinal(s, suffix) ==
  Len(s) >= Len(suffix) /\ SubSeq(s, Len(s) - Len(suffix) + 1, Len(s)) = suffix

Digits == <<"0","1","2","3","4","5","6","7","8","9">>

\* the regular expression classes \d, \w and \s on the characters in use
IsDigit(c) == \E i \in 1..Len(Digits) : Digits[i] = c
IsWordChar(c) ==
  \/ IsDigit(c)
  \/ c = "_"
  \/ \E i \in 1..Len(LowerChars) : LowerChars[i] = c \/ UpperChars[i] = c
  \/ c \in {"ö", "ü"}
IsWhiteSpace(c) == c = " "

\* string.Split(separator): the parts between the separators, empty ones included
RECURSIVE Split(_, _)
Split(s, separator) ==
  IF \A i \in 1..Len(s) : s[i] # separator THEN <<s>>
  ELSE LET i == CHOOSE i \in 1..Len(s) :
                  s[i] = separator /\ \A j \in 1..(i - 1) : s[j] # separator
       IN <<SubSeq(s, 1, i - 1)>> \o Split(SubSeq(s, i + 1, Len(s)), separator)

\* string.Split(separator, StringSplitOptions.RemoveEmptyEntries)
SplitRemoveEmptyEntries(s, separator) == SelectSeq(Split(s, separator), LAMBDA p : p # <<>>)

\* the value of a string of digits
RECURSIVE DigitsValue(_)
DigitsValue(s) ==
  IF s = <<>> THEN 0
  ELSE 10 * DigitsValue(SubSeq(s, 1, Len(s) - 1))
       + (CHOOSE d \in 0..9 : Digits[d + 1] = s[Len(s)])

\* int.TryParse of a string of digits: no value when it exceeds int.MaxValue
TryParse(s) ==
  IF Len(s) > 9 THEN None ELSE Some(DigitsValue(s))

----------------------------------------------------------------------------
(* String literals of the program and of the inputs *)

DefaultBaseUrl == <<"h","t","t","p",":","/","/","1","2","7",".","0",".","0",".","1",":","5","0","5","5">>
SchemeSep == <<":","/","/">>
HttpScheme == <<"h","t","t","p",":","/","/">>
Slash == <<"/">>
Dizibox == <<"d","i","z","i","b","o","x">>
Hdfilm == <<"h","d","f","i","l","m">>

\* private static readonly string[] DefaultProviders = { "dizibox", "hdfilm" }
DefaultProviders == <<Dizibox, Hdfilm>>

\* input strings
BareHost == <<"r",".","l","a","n">>
KeyPadded == <<" ","k","1"," ">>
HdfilmMixed == <<" ","H","D","F","i","l","m"," ">>
Blank == <<" "," ">>
Empty == <<>>
SiteMixed == <<"H","d","F","i","l","m">>
TypeMovie == <<"m","o","v","i","e">>
TypeEpisode == <<"e","p","i","s","o","d","e">>
IdNobody == <<"h","d","f","i","l","m",":","n","o","b","o","d","y","-","2">>
IdKara == <<"d","i","z","i","b","o","x",":","k","a","r","a","-","s","e","v","d","a",":","s","0","2","e","0","5">>
IdUp == <<"h","d","f","i","l","m",":","u","p">>
IdUpUpper == <<"H","D","F","I","L","M",":","U","P">>
TitleNobody == <<"N","o","b","o","d","y"," ","2">>
TitleKara == <<"K","a","r","a"," ","S","e","v","d","a">>
TitleUp == <<"U","p">>
SubtitleKara == <<"S","e","z","o","n"," ","3"," ","B","o","l","u","m"," ","7">>
Colon == ":"
Sezon == <<"s","e","z","o","n">>
Season == <<"s","e","a","s","o","n">>
Bolum == <<"b","o","l","u","m">>
BolumTr == <<"b","ö","l","ü","m">>
Episode == <<"e","p","i","s","o","d","e">>
SeriesKara == <<"d","i","z","i","b","o","x",":","k","a","r","a","-","s","e","v","d","a">>
QueryKara == <<"s","e","v","d","a">>

----------------------------------------------------------------------------
(* Configuration snapshot *)

\* NormalizeResolverBase
NormalizeResolverBase(value) ==
  LET baseUrl == IF IsNullOrWhiteSpace(value) THEN DefaultBaseUrl ELSE Trim(value)
      withScheme == IF ~ContainsOrdinal(baseUrl, SchemeSep) THEN HttpScheme \o baseUrl ELSE baseUrl
  IN IF ~EndsWithOrdinal(withScheme, Slash) THEN withScheme \o Slash ELSE withScheme

\* Enumerable.Distinct(StringComparer.OrdinalIgnoreCase): first occurrences, in order
RECURSIVE DistinctIgnoreCase(_)
DistinctIgnoreCase(seq) ==
  IF seq = <<>> THEN <<>>
  ELSE LET init == DistinctIgnoreCase(SubSeq(seq, 1, Len(seq) - 1))
           last == seq[Len(seq)]
       IN IF \E i \in 1..Len(init) : EqualsIgnoreCase(init[i], last) THEN init ELSE Append(init, last)

\* the Select/Where/Select/Distinct pipeline of NormalizeProviders
NormalizedNonBlank(providers) ==
  LET trimmed == [i \in 1..Len(providers) |->
                    Trim(IF providers[i] = NULL THEN Empty ELSE providers[i])]
      kept == SelectSeq(trimmed, LAMBDA p : ~IsNullOrWhiteSpace(p))
      lowered == [i \in 1..Len(kept) |-> ToLowerInvariant(kept[i])]
  IN DistinctIgnoreCase(lowered)

\* a variant of NormalizeProviders that keeps an empty provider list empty
NormalizeProvidersNoDefault(providers) ==
  IF providers = NullArray THEN DefaultProviders ELSE NormalizedNonBlank(providers)

\* a variant of NormalizeProviders that forgets to lower-case
NormalizeProvidersNoLower(providers) ==
  IF providers = NullArray THEN DefaultProviders
  ELSE LET trimmed == [i \in 1..Len(providers) |->
                         Trim(IF providers[i] = NULL THEN Empty ELSE providers[i])]
           kept == DistinctIgnoreCase(SelectSeq(trimmed, LAMBDA p : ~IsNullOrWhiteSpace(p)))
       IN IF Len(kept) > 0 THEN kept ELSE DefaultProviders

\* NormalizeProviders: the elements of the returned (always fresh) array
NormalizeProviders(providers) ==
  IF providers = NullArray THEN DefaultProviders
  ELSE LET normalized == NormalizedNonBlank(providers)
       IN IF Len(normalized) > 0 THEN normalized ELSE DefaultProviders

MinCacheMinutes == 1
MaxCacheMinutes == 1440

\* Math.Clamp
Clamp(v, lo, hi) == IF v < lo THEN lo ELSE IF v > hi THEN hi ELSE v

\* a variant of GetCatalogCacheDuration that does not clamp
GetCatalogCacheDurationNoClamp(snapshot) ==
  IF snapshot.DisableCache THEN 0 ELSE snapshot.CacheMinutes

\* GetCatalogCacheDuration, in minutes (TimeSpan.Zero is 0)
GetCatalogCacheDuration(snapshot) ==
  IF snapshot.DisableCache THEN 0
  ELSE Clamp(snapshot.CacheMinutes, MinCacheMinutes, MaxCacheMinutes)

\* GetConfigurationSnapshot: the record struct built from the live configuration;
\* Providers is an array object: a reference and its elements
GetConfigurationSnapshot(configuration, ref) ==
  LET apiKey == IF IsNullOrWhiteSpace(configuration.ApiKey) THEN NULL ELSE Trim(configuration.ApiKey)
      cacheMinutes == IF configuration.CatalogCacheMinutes < 0 THEN 0 ELSE configuration.CatalogCacheMinutes
  IN [BaseUrl |-> NormalizeResolverBase(configuration.ResolverBaseUrl),
      ApiKey |-> IF IsNullOrEmpty(apiKey) THEN NULL ELSE apiKey,
      CacheMinutes |-> cacheMinutes,
      DisableCache |-> configuration.DisableCatalogCache,
      Providers |-> [ref |-> ref, items |-> NormalizeProviders(configuration.EnabledProviders)]]

\* a variant of ResolverClientConfigEquals: the comparison of the previous
\* revision of the client, which looks at the base URL and the API key only
ResolverClientConfigEqualsUrlKey(a, b) ==
  EqualsIgnoreCase(a.BaseUrl, b.BaseUrl) /\ a.ApiKey = b.ApiKey

\* the synthesized Equals of the record struct ResolverClientConfig: each
\* field by its default equality comparer, which for string[] is reference
\* equality
ResolverClientConfigEquals(a, b) ==
  /\ a.BaseUrl = b.BaseUrl
  /\ a.ApiKey = b.ApiKey
  /\ a.CacheMinutes = b.CacheMinutes
  /\ a.DisableCache = b.DisableCache
  /\ a.Providers.ref = b.Providers.ref

----------------------------------------------------------------------------
(* Catalog entries, the provider filter and the index *)

Entry(id, site, type, title, subtitle, originalTitle) ==
  [Id |-> id, Site |-> site, Type |-> type, Title |-> title, Subtitle |-> subtitle,
   OriginalTitle |-> originalTitle]

\* the StreamarrCatalogEntry objects the resolver may serve; a list of entries
\* holds their names, as the program's lists hold references
StreamarrCatalogEntry ==
  [ Nobody  |-> Entry(IdNobody, Hdfilm, TypeMovie, TitleNobody, Empty, NULL),
    Kara    |-> Entry(IdKara, Dizibox, TypeEpisode, TitleKara, SubtitleKara, NULL),
    UpUpper |-> Entry(IdUpUpper, SiteMixed, TypeMovie, TitleUp, Empty, TitleUp),
    NoSite  |-> Entry(IdUp, Blank, TypeMovie, TitleUp, Empty, NULL),
    KaraNext |-> Entry(<<"D","i","z","i","b","o","x",":","K","a","r","a","-","S","e","v","d","a",":","S","0","2","E","0","6">>,
                       Dizibox, TypeEpisode, TitleKara, Empty, NULL),
    Ezel    |-> Entry(<<"d","i","z","i","b","o","x",":","e","z","e","l",":","s","0","1","e","0","1">>,
                      Dizibox, TypeEpisode, <<"E","z","e","l">>, NULL, NULL),
    Loose   |-> Entry(<<"e","p","-","9">>, Dizibox, TypeEpisode, TitleKara,
                      <<"S","e","z","o","n"," ","2"," ","B","ö","l","ü","m"," ","7">>, NULL),
    Bare    |-> Entry(<<"e","p","-","1">>, Dizibox, TypeEpisode, TitleKara, Empty, NULL),
    Puhu    |-> Entry(<<"p","u","h","u","t","v",":","e","z","e","l",":","s","0","1","e","0","2">>,
                      <<"p","u","h","u","t","v">>, TypeEpisode, <<"E","z","e","l">>, NULL, NULL) ]

\* the bodies the resolver's /catalog endpoint may answer with
RemoteCatalogs == { <<"Nobody", "Kara">>, <<"NoSite", "UpUpper">>, <<>> }

\* HashSet<string>(StringComparer.OrdinalIgnoreCase).Contains
HashSetContains(set, s) == \E p \in set : EqualsIgnoreCase(p, s)

\* HashSet<string>(StringComparer.OrdinalIgnoreCase).Add
HashSetAdd(set, s) == IF HashSetContains(set, s) THEN set ELSE set \cup {s}

\* a variant of SiteEnabled that compares the site case-sensitively
SiteEnabledOrdinal(entry, enabled) ==
  /\ ~IsNullOrWhiteSpace(StreamarrCatalogEntry[entry].Site)
  /\ StreamarrCatalogEntry[entry].Site \in enabled

\* the predicate of the Where clause of ApplyProviderFilter
SiteEnabled(entry, enabled) ==
  /\ ~IsNullOrWhiteSpace(StreamarrCatalogEntry[entry].Site)
  /\ HashSetContains(enabled, StreamarrCatalogEntry[entry].Site)

\* BuildCatalogIndex: a Dictionary keyed by id, OrdinalIgnoreCase; a later
\* entry with the same key replaces an earlier one
BuildCatalogIndex(entries) ==
  LET Id(i) == StreamarrCatalogEntry[entries[i]].Id
      keyed == {i \in 1..Len(entries) : ~IsNullOrWhiteSpace(Id(i))}
      keys == {ToLowerInvariant(Id(i)) : i \in keyed}
      lastOf(k) == CHOOSE i \in keyed :
                     /\ ToLowerInvariant(Id(i)) = k
                     /\ \A j \in keyed : ToLowerInvariant(Id(j)) = k => j <= i
  IN [k \in keys |-> entries[lastOf(k)]]

----------------------------------------------------------------------------
(* StreamarrCatalogEntry: the parsed properties and the matchers *)

IsMovie(entry) == EqualsIgnoreCase(entry.Type, TypeMovie)
IsEpisode(entry) == EqualsIgnoreCase(entry.Type, TypeEpisode)

\* a variant of EpisodeIdRegex that accepts the composite ids of any site
EpisodeIdRegexAnySite(id) ==
  LET parts == Split(id, Colon)
      last == ToLowerInvariant(parts[3])
      cut == {i \in 3..(Len(last) - 1) :
                /\ last[1] = "s"
                /\ last[i] = "e"
                /\ \A j \in 2..(i - 1) : IsDigit(last[j])
                /\ \A j \in (i + 1)..Len(last) : IsDigit(last[j])}
  IN IF /\ Len(parts) = 3
        /\ parts[1] # <<>>
        /\ parts[2] # <<>>
        /\ cut # {}
     THEN LET i == CHOOSE i \in cut : TRUE
          IN Some([slug |-> parts[2], season |-> SubSeq(parts[3], 2, i - 1),
                   episode |-> SubSeq(parts[3], i + 1, Len(parts[3]))])
     ELSE None

\* EpisodeIdRegex.Match(id), ^dizibox:(?<slug>[^:]+):s(?<_season>\d+)e(?<_episode>\d+)$
\* with RegexOptions.IgnoreCase: the three groups, or no match
EpisodeIdRegex(id) ==
  LET parts == Split(id, Colon)
      last == ToLowerInvariant(parts[3])
      cut == {i \in 3..(Len(last) - 1) :
                /\ last[1] = "s"
                /\ last[i] = "e"
                /\ \A j \in 2..(i - 1) : IsDigit(last[j])
                /\ \A j \in (i + 1)..Len(last) : IsDigit(last[j])}
  IN IF /\ Len(parts) = 3
        /\ EqualsIgnoreCase(parts[1], Dizibox)
        /\ parts[2] # <<>>
        /\ cut # {}
     THEN LET i == CHOOSE i \in cut : TRUE
          IN Some([slug |-> parts[2], season |-> SubSeq(parts[3], 2, i - 1),
                   episode |-> SubSeq(parts[3], i + 1, Len(parts[3]))])
     ELSE None

RECURSIVE DigitRun(_, _)
DigitRun(s, i) == IF i <= Len(s) /\ IsDigit(s[i]) THEN 1 + DigitRun(s, i + 1) ELSE 0
RECURSIVE SpaceRun(_, _)
SpaceRun(s, i) == IF i <= Len(s) /\ IsWhiteSpace(s[i]) THEN 1 + SpaceRun(s, i + 1) ELSE 0

\* the leftmost match in s of (?:\b(?:word|...)\b)\s*(?<num>\d+) with
\* RegexOptions.IgnoreCase: the group num, or no match
SubtitleRegex(words, s) ==
  LET low == ToLowerInvariant(s)
      NumStart(i, w) == i + Len(w) + SpaceRun(s, i + Len(w))
      MatchAt(i, w) ==
        /\ i + Len(w) - 1 <= Len(s)
        /\ SubSeq(low, i, i + Len(w) - 1) = w
        /\ i = 1 \/ ~IsWordChar(s[i - 1])
        /\ i + Len(w) > Len(s) \/ ~IsWordChar(s[i + Len(w)])
        /\ DigitRun(s, NumStart(i, w)) > 0
      hits == {i \in 1..Len(s) : \E w \in words : MatchAt(i, w)}
  IN IF hits = {} THEN None
     ELSE LET i == CHOOSE i \in hits : \A j \in hits : i <= j
              w == CHOOSE w \in words : MatchAt(i, w)
          IN Some(SubSeq(s, NumStart(i, w), NumStart(i, w) + DigitRun(s, NumStart(i, w)) - 1))

\* SeasonSubtitleRegex and EpisodeSubtitleRegex
SeasonSubtitleRegex == {Sezon, Season}
EpisodeSubtitleRegex == {BolumTr, Bolum, Episode}

\* ParseNumberFromSubtitle
ParseNumberFromSubtitle(entry, pattern) ==
  IF IsNullOrWhiteSpace(entry.Subtitle) THEN None
  ELSE LET match == SubtitleRegex(pattern, entry.Subtitle)
       IN IF match = None THEN None ELSE TryParse(match[1])

\* SeriesSlug
SeriesSlug(entry) ==
  IF ~IsEpisode(entry) THEN Empty
  ELSE LET match == EpisodeIdRegex(entry.Id)
       IN IF match # None THEN match[1].slug ELSE entry.Id

\* SeasonNumber
SeasonNumber(entry) ==
  IF ~IsEpisode(entry) THEN None
  ELSE LET match == EpisodeIdRegex(entry.Id)
       IN IF match # None /\ TryParse(match[1].season) # None
          THEN TryParse(match[1].season)
          ELSE ParseNumberFromSubtitle(entry, SeasonSubtitleRegex)

\* EpisodeNumber
EpisodeNumber(entry) ==
  IF ~IsEpisode(entry) THEN None
  ELSE LET match == EpisodeIdRegex(entry.Id)
       IN IF match # None /\ TryParse(match[1].episode) # None
          THEN TryParse(match[1].episode)
          ELSE ParseNumberFromSubtitle(entry, EpisodeSubtitleRegex)

\* a variant of MatchesEpisodeNumbers that wants a number the lookup has to be
\* the entry's
MatchesEpisodeNumbersStrict(entry, season, episode) ==
  IF season # None /\ SeasonNumber(entry) # season THEN FALSE
  ELSE IF episode # None /\ EpisodeNumber(entry) # episode THEN FALSE
  ELSE TRUE

\* MatchesEpisodeNumbers
MatchesEpisodeNumbers(entry, season, episode) ==
  IF season # None /\ SeasonNumber(entry) # None /\ SeasonNumber(entry) # season THEN FALSE
  ELSE IF episode # None /\ EpisodeNumber(entry) # None /\ EpisodeNumber(entry) # episode
  THEN FALSE
  ELSE TRUE

\* a variant of ExtractSeriesSlug that takes the slug of an id of any site
ExtractSeriesSlugAnySite(providerId) ==
  IF IsNullOrWhiteSpace(providerId) THEN NULL
  ELSE LET parts == SplitRemoveEmptyEntries(providerId, Colon)
       IN IF Len(parts) < 2 THEN NULL ELSE parts[2]

\* ExtractSeriesSlug
ExtractSeriesSlug(providerId) ==
  IF IsNullOrWhiteSpace(providerId) THEN NULL
  ELSE LET parts == SplitRemoveEmptyEntries(providerId, Colon)
       IN IF Len(parts) < 2 THEN NULL
          ELSE IF EqualsIgnoreCase(parts[1], Dizibox) THEN parts[2] ELSE NULL

\* a variant of TitleMatches that also accepts a query that holds the title
TitleMatchesEitherWay(entry, query) ==
  IF IsNullOrWhiteSpace(query) THEN FALSE
  ELSE \/ ContainsIgnoreCase(entry.Title, query)
       \/ ContainsIgnoreCase(query, entry.Title)
       \/ /\ ~IsNullOrWhiteSpace(entry.OriginalTitle)
          /\ \/ ContainsIgnoreCase(entry.OriginalTitle, query)
             \/ ContainsIgnoreCase(query, entry.OriginalTitle)

\* TitleMatches
TitleMatches(entry, query) ==
  IF IsNullOrWhiteSpace(query) THEN FALSE
  ELSE IF EqualsIgnoreCase(entry.Title, query) THEN TRUE
  ELSE IF ~IsNullOrWhiteSpace(entry.OriginalTitle) /\ EqualsIgnoreCase(entry.OriginalTitle, query)
  THEN TRUE
  ELSE \/ ContainsIgnoreCase(entry.Title, query)
       \/ /\ ~IsNullOrWhiteSpace(entry.OriginalTitle)
          /\ ContainsIgnoreCase(entry.OriginalTitle, query)

\* MatchesMovie
MatchesMovie(entry, lookup) ==
  IF ~IsMovie(entry) THEN FALSE
  ELSE IF /\ ~IsNullOrWhiteSpace(lookup.ProviderId)
          /\ EqualsIgnoreCase(lookup.ProviderId, entry.Id)
  THEN TRUE
  ELSE TitleMatches(entry, lookup.Name) \/ TitleMatches(entry, lookup.OriginalTitle)

\* the slug of a provider id is that of the entry's series
SlugMatches(entry, providerId) ==
  LET slug == ExtractSeriesSlug(providerId)
  IN ~IsNullOrEmpty(slug) /\ EqualsIgnoreCase(slug, SeriesSlug(entry))

\* MatchesSeries
MatchesSeries(entry, lookup) ==
  IF ~IsEpisode(entry) THEN FALSE
  ELSE IF /\ ~IsNullOrWhiteSpace(lookup.ProviderId)
          /\ \/ EqualsIgnoreCase(lookup.ProviderId, entry.Id)
             \/ SlugMatches(entry, lookup.ProviderId)
  THEN TRUE
  ELSE TitleMatches(entry, lookup.Name) \/ TitleMatches(entry, lookup.OriginalTitle)

\* a variant of MatchesEpisode that compares the numbers even when the ids are equal
MatchesEpisodeNumbersAlways(entry, lookup) ==
  IF ~IsEpisode(entry) THEN FALSE
  ELSE IF /\ ~IsNullOrWhiteSpace(lookup.ProviderId)
          /\ \/ EqualsIgnoreCase(lookup.ProviderId, entry.Id)
             \/ SlugMatches(entry, lookup.ProviderId)
  THEN MatchesEpisodeNumbers(entry, lookup.SeasonNumber, lookup.EpisodeNumber)
  ELSE IF /\ ~IsNullOrWhiteSpace(lookup.SeriesProviderId)
          /\ SlugMatches(entry, lookup.SeriesProviderId)
  THEN MatchesEpisodeNumbers(entry, lookup.SeasonNumber, lookup.EpisodeNumber)
  ELSE IF ~IsNullOrWhiteSpace(lookup.SeriesName) /\ ~TitleMatches(entry, lookup.SeriesName)
  THEN FALSE
  ELSE MatchesEpisodeNumbers(entry, lookup.SeasonNumber, lookup.EpisodeNumber)

\* a variant of MatchesEpisode that consults the series name before the slugs
MatchesEpisodeNameFirst(entry, lookup) ==
  IF ~IsEpisode(entry) THEN FALSE
  ELSE IF /\ ~IsNullOrWhiteSpace(lookup.ProviderId)
          /\ EqualsIgnoreCase(lookup.ProviderId, entry.Id)
  THEN TRUE
  ELSE IF ~IsNullOrWhiteSpace(lookup.SeriesName) /\ ~TitleMatches(entry, lookup.SeriesName)
  THEN FALSE
  ELSE MatchesEpisodeNumbers(entry, lookup.SeasonNumber, lookup.EpisodeNumber)

\* a variant of MatchesEpisode that does not consult the series name
MatchesEpisodeIgnoringName(entry, lookup) ==
  IF ~IsEpisode(entry) THEN FALSE
  ELSE IF /\ ~IsNullOrWhiteSpace(lookup.ProviderId)
          /\ EqualsIgnoreCase(lookup.ProviderId, entry.Id)
  THEN TRUE
  ELSE MatchesEpisodeNumbers(entry, lookup.SeasonNumber, lookup.EpisodeNumber)

\* MatchesEpisode
MatchesEpisode(entry, lookup) ==
  IF ~IsEpisode(entry) THEN FALSE
  ELSE IF /\ ~IsNullOrWhiteSpace(lookup.ProviderId)
          /\ EqualsIgnoreCase(lookup.ProviderId, entry.Id)
  THEN TRUE
  ELSE IF ~IsNullOrWhiteSpace(lookup.ProviderId) /\ SlugMatches(entry, lookup.ProviderId)
  THEN MatchesEpisodeNumbers(entry, lookup.SeasonNumber, lookup.EpisodeNumber)
  ELSE IF /\ ~IsNullOrWhiteSpace(lookup.SeriesProviderId)
          /\ SlugMatches(entry, lookup.SeriesProviderId)
  THEN MatchesEpisodeNumbers(entry, lookup.SeasonNumber, lookup.EpisodeNumber)
  ELSE IF ~IsNullOrWhiteSpace(lookup.SeriesName) /\ ~TitleMatches(entry, lookup.SeriesName)
  THEN FALSE
  ELSE MatchesEpisodeNumbers(entry, lookup.SeasonNumber, lookup.EpisodeNumber)

\* Enumerable.FirstOrDefault: the first entry, or null; FirstOrDefault(predicate)
\* is the first of the entries the predicate selects
FirstOrDefault(entries) == IF entries = <<>> THEN None ELSE Some(Head(entries))

\* a variant of SeriesMatches whose Dictionary compares its keys ordinally
RECURSIVE SeriesMatchesOrdinal(_, _)
SeriesMatchesOrdinal(catalog, lookup) ==
  IF catalog = <<>> THEN <<>>
  ELSE LET matches == SeriesMatchesOrdinal(SubSeq(catalog, 1, Len(catalog) - 1), lookup)
           entry == StreamarrCatalogEntry[catalog[Len(catalog)]]
           key == IF IsNullOrWhiteSpace(SeriesSlug(entry)) THEN entry.Id ELSE SeriesSlug(entry)
       IN IF ~IsEpisode(entry) \/ ~MatchesSeries(entry, lookup) THEN matches
          ELSE IF \E i \in 1..Len(matches) : matches[i].key = key THEN matches
          ELSE Append(matches, [key |-> key, value |-> catalog[Len(catalog)]])

\* the foreach of FindSeriesMatchesAsync: the Dictionary (OrdinalIgnoreCase) of
\* the first matching entry of each series, in the order the keys were added
RECURSIVE SeriesMatches(_, _)
SeriesMatches(catalog, lookup) ==
  IF catalog = <<>> THEN <<>>
  ELSE LET matches == SeriesMatches(SubSeq(catalog, 1, Len(catalog) - 1), lookup)
           entry == StreamarrCatalogEntry[catalog[Len(catalog)]]
           key == IF IsNullOrWhiteSpace(SeriesSlug(entry)) THEN entry.Id ELSE SeriesSlug(entry)
       IN IF ~IsEpisode(entry) \/ ~MatchesSeries(entry, lookup) THEN matches
          ELSE IF \E i \in 1..Len(matches) : EqualsIgnoreCase(matches[i].key, key) THEN matches
          ELSE Append(matches, [key |-> key, value |-> catalog[Len(catalog)]])

MovieInfoLookup(name, originalTitle, providerId) ==
  [Name |-> name, OriginalTitle |-> originalTitle, ProviderId |-> providerId]
SeriesInfoLookup(name, originalTitle, providerId) ==
  [Name |-> name, OriginalTitle |-> originalTitle, ProviderId |-> providerId]
EpisodeInfoLookup(seriesName, seasonNumber, episodeNumber, providerId, seriesProviderId) ==
  [SeriesName |-> seriesName, SeasonNumber |-> seasonNumber, EpisodeNumber |-> episodeNumber,
   ProviderId |-> providerId, SeriesProviderId |-> seriesProviderId]

\* ToSeriesSearchResult and ToSeries: the name and the provider id stored under
\* ProviderKey
ToSeriesSearchResult(entry) ==
  [Name |-> entry.Title, ProviderId |-> Dizibox \o <<Colon>> \o SeriesSlug(entry)]

----------------------------------------------------------------------------
(* The metadata providers, on the catalog the client gives them *)

\* StreamarrMetadataUtilities.GetProviderId and GetSeriesProviderId, of the
\* value stored under ProviderKey (NULL when there is none)
GetProviderId(value) == IF IsNullOrWhiteSpace(value) THEN NULL ELSE Trim(value)

\* GetEntryByIdAsync on a catalog that the call itself fetched and indexed
GetEntryById(catalog, entryId) ==
  IF IsNullOrWhiteSpace(entryId) THEN None
  ELSE LET index == BuildCatalogIndex(catalog)
           key == ToLowerInvariant(entryId)
       IN IF key \in DOMAIN index THEN Some(index[key])
          ELSE FirstOrDefault(SelectSeq(catalog,
                 LAMBDA e : EqualsIgnoreCase(StreamarrCatalogEntry[e].Id, entryId)))

\* StreamarrMovieMetadataProvider.ResolveMovieEntryAsync
ResolveMovieEntry(catalog, info) ==
  LET providerId == GetProviderId(info.ProviderId)
      entryById == IF IsNullOrWhiteSpace(providerId) THEN None
                   ELSE GetEntryById(catalog, providerId)
      lookup == MovieInfoLookup(info.Name, info.OriginalTitle, providerId)
  IN IF entryById # None THEN entryById
     ELSE FirstOrDefault(SelectSeq(catalog,
            LAMBDA e : /\ IsMovie(StreamarrCatalogEntry[e])
                       /\ MatchesMovie(StreamarrCatalogEntry[e], lookup)))

\* StreamarrSeriesMetadataProvider.GetSeriesEntryForProviderAsync, with
\* StreamarrMetadataUtilities.ExtractSeriesSlug
GetSeriesEntryForProvider(catalog, providerId) ==
  LET entry == GetEntryById(catalog, providerId)
      slug == ExtractSeriesSlug(Trim(providerId))
  IN IF entry # None THEN entry
     ELSE IF IsNullOrWhiteSpace(slug) THEN None
     ELSE FirstOrDefault(SelectSeq(catalog,
            LAMBDA e : /\ IsEpisode(StreamarrCatalogEntry[e])
                       /\ EqualsIgnoreCase(SeriesSlug(StreamarrCatalogEntry[e]), slug)))

\* StreamarrSeriesMetadataProvider.ResolveSeriesEntryAsync
ResolveSeriesEntry(catalog, info) ==
  LET providerId == GetProviderId(info.ProviderId)
      entry == IF IsNullOrWhiteSpace(providerId) THEN None
               ELSE GetSeriesEntryForProvider(catalog, providerId)
      matches == SeriesMatches(catalog,
                               SeriesInfoLookup(info.Name, info.OriginalTitle, providerId))
  IN IF entry # None THEN entry
     ELSE IF matches = <<>> THEN None ELSE Some(matches[1].value)

\* StreamarrEpisodeMetadataProvider.ResolveEpisodeEntryAsync
ResolveEpisodeEntry(catalog, info) ==
  LET providerId == GetProviderId(info.ProviderId)
      byId == IF IsNullOrWhiteSpace(providerId) THEN None
              ELSE GetEntryById(catalog, providerId)
      slug == IF IsNullOrWhiteSpace(providerId) THEN NULL
              ELSE ExtractSeriesSlug(Trim(providerId))
      match == IF IsNullOrWhiteSpace(slug) THEN None
               ELSE FirstOrDefault(SelectSeq(catalog,
                      LAMBDA e :
                        LET item == StreamarrCatalogEntry[e]
                        IN /\ IsEpisode(item)
                           /\ EqualsIgnoreCase(SeriesSlug(item), slug)
                           /\ info.SeasonNumber = None
                                \/ SeasonNumber(item) = info.SeasonNumber
                           /\ info.EpisodeNumber = None
                                \/ EpisodeNumber(item) = info.EpisodeNumber))
      lookup == EpisodeInfoLookup(NULL, info.SeasonNumber, info.EpisodeNumber, providerId,
                                  GetProviderId(info.SeriesProviderId))
  IN IF byId # None THEN byId
     ELSE IF match # None THEN match
     ELSE FirstOrDefault(SelectSeq(catalog,
            LAMBDA e : /\ IsEpisode(StreamarrCatalogEntry[e])
                       /\ MatchesEpisode(StreamarrCatalogEntry[e], lookup)))

----------------------------------------------------------------------------
(* State *)

\* the host's threads that call into the one shared client
Callers == {"t1", "t2"}
\* the only caller when the host's callers take turns
SeqCaller == "t1"

MaxCalls == 2
\* how often the environment moves in a run: the administrator saves another
\* configuration or the clock is seen to advance
MaxEvents == 1

\* DateTime.MinValue, in minutes
MinValue == 0
\* the clock starts later than any TTL after DateTime.MinValue
StartTime == MaxCacheMinutes + 1
\* how far the clock may have advanced since it was last read, in minutes
TickDeltas == {1, 1440}

\* the methods that begin with a snapshot of the configuration; GetEntryByIdAsync
\* and the Find methods begin with GetCatalogAsync, and which of them called it
\* shows only in what is done with the catalog it returns
Ops == {"GetCatalogAsync", "ResolveStreamAsync", "GetHealthAsync"}

\* the values the administrator may give the settings
CacheMinutesInputs == {-5, 10, 2000}
ProviderInputs == { <<>>, <<Dizibox, Hdfilm>>, <<HdfilmMixed, Hdfilm, Blank>> }
BlankIdInputs == {NULL, Blank}
EntryIdInputs == {IdNobody, IdUp}
MovieLookupInputs == {MovieInfoLookup(TitleUp, NULL, NULL), MovieInfoLookup(NULL, NULL, IdNobody)}
SeriesLookupInputs == {SeriesInfoLookup(NULL, NULL, SeriesKara), SeriesInfoLookup(QueryKara, NULL, NULL)}
EpisodeLookupInputs ==
  {EpisodeInfoLookup(NULL, Some(2), Some(5), NULL, SeriesKara),
   EpisodeInfoLookup(NULL, Some(3), Some(7), NULL, SeriesKara)}

\* new StreamarrPluginConfiguration()
DefaultConfiguration ==
  [ResolverBaseUrl |-> DefaultBaseUrl, ApiKey |-> Empty, CatalogCacheMinutes |-> 10,
   DisableCatalogCache |-> FALSE, EnabledProviders |-> <<Dizibox, Hdfilm>>]

VARIABLES
  configuration,          \* StreamarrPlugin.Instance.Configuration
  changes,                \* how often the configuration was changed
  now,                    \* the last reading of DateTime.UtcNow, in minutes
  ticks,                  \* how often the clock was seen to advance
  catalogCache,           \* _catalogCache
  catalogIndex,           \* _catalogIndex
  catalogCacheTimestamp,  \* _catalogCacheTimestamp
  lastConfig,             \* _lastConfig
  enabledProviders,       \* _enabledProviders
  cacheLock,              \* the holder of _cacheLock, or "free"
  call,                   \* each caller's operation, position and locals
  started,                \* how many operations were started
  sequential,             \* whether the callers take turns
  past,                   \* history: the configurations replaced so far, oldest first
  cacheSrc,               \* history: which configuration _catalogCache was fetched under
  hist,                   \* history: what the running sequential call has done
  lastGood,               \* history: the last catalog a sequential call cached, when,
                          \* and under which configuration, while that is the live one
  instance,               \* StreamarrMetadataClientFactory._instance
  SyncRoot,               \* the holder of StreamarrMetadataClientFactory.SyncRoot, or "free"
  constructed,            \* how many StreamarrApiClient objects were constructed
  provider                \* each metadata provider's position in its constructor,
                          \* and the _apiClient of each of its instances

vars == <<configuration, changes, now, ticks, catalogCache, catalogIndex,
          catalogCacheTimestamp, lastConfig, enabledProviders, cacheLock, call,
          started, sequential, past, cacheSrc, hist, lastGood,
          instance, SyncRoot, constructed, provider>>

factoryVars == <<instance, SyncRoot, constructed, provider>>
clientVars == <<configuration, changes, now, ticks, catalogCache, catalogIndex,
                catalogCacheTimestamp, lastConfig, enabledProviders, cacheLock, call,
                started, sequential, past, cacheSrc, hist, lastGood>>
cacheVars == <<catalogCache, catalogIndex, catalogCacheTimestamp, cacheSrc>>
envVars == <<configuration, changes, now, ticks, started, sequential, past, lastGood,
             factoryVars>>
confVars == <<configuration, changes, started, sequential, past, lastGood, factoryVars>>

\* the history of a call that has done nothing yet: the configuration its
\* snapshot was taken of and the one the call before it saw, whether it reset
\* the cache and whether it sent a request, the entries the resolver answered
\* with, whether the request failed, what it cached and when, and when it
\* looked at the cache
NoHist ==
  [live |-> None, prev |-> None, reset |-> FALSE, fetched |-> FALSE, entries |-> None, failed |-> FALSE,
   stored |-> None, storedAt |-> 0, decidedAt |-> 0]

\* history is kept of sequential calls only
Record(h) == IF sequential THEN h ELSE hist

IdleCall ==
  [op |-> "none", pc |-> "idle", arg |-> NULL, snapshot |-> None, cacheDuration |-> 0,
   cached |-> None, src |-> <<>>, pos |-> 0, filtered |-> <<>>,
   ctx |-> "none", catalog |-> None, result |-> None, outcome |-> "none",
   \* history: whether the caller cancelled the request, how many configuration
   \* changes preceded the snapshot, after how many changes the entries being
   \* filtered and the entries returned were fetched, and what the requests of
   \* ResolveStreamAsync and GetHealthAsync ended with
   cancelled |-> FALSE, epoch |-> 0, srcCfg |-> None, resCfg |-> None, ended |-> <<>>]

\* the references of the provider arrays still reachable
LiveRefs ==
  (IF lastConfig = None THEN {} ELSE {lastConfig[1].Providers.ref})
  \cup {call[c].snapshot[1].Providers.ref : c \in {d \in Callers : call[d].snapshot # None}}

\* new string[]: a reference no reachable array has
FreshRef ==
  CHOOSE r \in 1..(Cardinality(Callers) + 2) :
    r \notin LiveRefs /\ \A q \in 1..(Cardinality(Callers) + 2) : q \notin LiveRefs => r <= q

\* the metadata providers the host constructs
MetadataProviders == {"Movie", "Series", "Episode"}

\* a provider the host is not constructing, with the _apiClient of the
\* instances it has constructed so far
IdleProvider == [pc |-> "idle", local |-> None, apiClient |-> <<>>]

\* the static fields of StreamarrMetadataClientFactory when the plugin is loaded
Loaded ==
  /\ instance = None
  /\ SyncRoot = "free"
  /\ constructed = 0
  /\ provider = [p \in MetadataProviders |-> IdleProvider]

\* new StreamarrApiClient(...), before any call
Constructed ==
  /\ Loaded
  /\ changes = 0
  /\ now = StartTime
  /\ ticks = 0
  /\ catalogCache = None
  /\ catalogIndex = None
  /\ catalogCacheTimestamp = MinValue
  /\ lastConfig = None
  /\ enabledProviders = {}
  /\ cacheLock = "free"
  /\ call = [c \in Callers |-> IdleCall]
  /\ started = 0
  /\ past = <<>>
  /\ cacheSrc = None
  /\ hist = NoHist
  /\ lastGood = None

\* the plugin starts with its default configuration; the host either lets its
\* callers overlap or has them take turns
Init ==
  /\ configuration = DefaultConfiguration
  /\ sequential \in BOOLEAN
  /\ Constructed

\* the lengths of the provider lists an administrator may have saved
MaxProviders == 3
ProviderElements == {NULL, Blank, Dizibox, Hdfilm, HdfilmMixed}

\* the configurations the plugin may have been started with
ConfigurationInputs ==
  {[ResolverBaseUrl |-> u, ApiKey |-> k, CatalogCacheMinutes |-> m,
    DisableCatalogCache |-> FALSE, EnabledProviders |-> p] :
     u \in {DefaultBaseUrl, BareHost}, k \in {Empty, KeyPadded}, m \in {-5, 10},
     p \in {NullArray} \cup UNION {[1..n -> ProviderElements] : n \in 0..MaxProviders}}

\* the plugin starts with any of these configurations
ConfigInit ==
  /\ configuration \in ConfigurationInputs
  /\ sequential = TRUE
  /\ Constructed

----------------------------------------------------------------------------
(* The environment: the administrator and the clock *)

\* the host replaces the plugin configuration, after the client has read the
\* one it started with; the client reads it nowhere but in
\* GetConfigurationSnapshot, so the change is taken when a call is about to read it
SetConfig ==
  /\ changes + ticks < MaxEvents
  /\ lastConfig # None \/ \E c \in Callers : call[c].snapshot # None
  /\ \E c \in Callers : call[c].pc = "snapshot"
  /\ \E new \in
        {[configuration EXCEPT !.CatalogCacheMinutes = v] : v \in CacheMinutesInputs}
        \cup {[configuration EXCEPT !.DisableCatalogCache = v] : v \in BOOLEAN}
        \cup {[configuration EXCEPT !.EnabledProviders = v] : v \in ProviderInputs} :
       /\ new # configuration
       /\ configuration' = new
  /\ changes' = changes + 1
  /\ past' = Append(past, configuration)
  /\ UNCHANGED <<now, ticks, cacheVars, lastConfig, enabledProviders, cacheLock, call,
                 started, sequential, hist, lastGood, factoryVars>>

\* DateTime.UtcNow: the readings the clock may give next, never earlier than the last
UtcNow == {now} \cup (IF changes + ticks < MaxEvents THEN {now + d : d \in TickDeltas} ELSE {})

----------------------------------------------------------------------------
(* StreamarrApiClient *)

Snap(c) == call[c].snapshot[1]

\* the locals of a call that are dead once it has its answer
Cleared(r) ==
  [r EXCEPT !.cached = None, !.src = <<>>, !.pos = 0, !.filtered = <<>>, !.ctx = "none",
            !.catalog = None]

\* the statement after EnsureConfigurationSnapshot, which for ResolveStreamAsync
\* and GetHealthAsync is the request itself
AfterEnsure(op) ==
  IF op = "GetCatalogAsync" THEN "decide"
  ELSE IF op = "ResolveStreamAsync" THEN "play_wait" ELSE "health_wait"

\* GetCatalogAsync returns catalog; cfg tells which configuration it was fetched under
Completed(r, catalog, cfg) ==
  [Cleared(r) EXCEPT !.pc = "done", !.result = Some(catalog), !.outcome = "ok",
                     !.resCfg = cfg]

\* a variant of Filtered in which the fallback is stored like a fetched list
FilteredStoringFallback(r, filtered) ==
  IF r.ctx \in {"SetCatalogCache", "Fallback"}
  THEN [r EXCEPT !.pc = "set_cache", !.filtered = filtered]
  ELSE IF r.ctx = "SetCatalogIndex" THEN [r EXCEPT !.pc = "set_index", !.filtered = filtered]
  ELSE Completed(r, filtered, r.srcCfg)

\* ApplyProviderFilter returns filtered to SetCatalogCache, SetCatalogIndex or
\* the fallback of GetCatalogAsync
Filtered(r, filtered) ==
  IF r.ctx = "SetCatalogCache" THEN [r EXCEPT !.pc = "set_cache", !.filtered = filtered]
  ELSE IF r.ctx = "SetCatalogIndex" THEN [r EXCEPT !.pc = "set_index", !.filtered = filtered]
  ELSE Completed(r, filtered, r.srcCfg)

\* a variant of CatchClause that lets the general handler take every exception
CatchClauseGeneralOnly(kind) == "log"

\* a variant of CatchClause without the general handler
CatchClauseRethrowOnly(kind) == "rethrow"

\* the catch clauses around the requests: OperationCanceledException is
\* rethrown, every other exception is logged
CatchClause(kind) == IF kind = "cancelled" THEN "rethrow" ELSE "log"

FindOps == {"FindMovieAsync", "FindSeriesMatchesAsync", "FindEpisodeAsync"}

\* the Find methods touch nothing shared once GetCatalogAsync has returned, so
\* what they do with the catalog is looked at when no other call is running,
\* and they have returned when the next call begins
Quiet(c) == \A d \in Callers \ {c} : call[d].pc = "idle"

\* a caller enters one of the client's public methods
Begin(c) ==
  /\ call[c].pc = "idle"
  /\ started < MaxCalls
  /\ sequential => c = SeqCaller
  /\ \A d \in Callers : call[d].op \notin FindOps
  /\ \/ \E op \in Ops :
          call' = [call EXCEPT ![c] = [IdleCall EXCEPT !.op = op, !.pc = "snapshot"]]
     \/ \E id \in BlankIdInputs :
          call' = [call EXCEPT ![c] =
            [IdleCall EXCEPT !.op = "GetEntryByIdAsync", !.arg = id, !.pc = "done",
                             !.outcome = "ok"]]
  /\ started' = started + 1
  /\ hist' = Record([NoHist EXCEPT !.prev = hist.live])
  /\ UNCHANGED <<configuration, changes, now, ticks, cacheVars, lastConfig,
                 enabledProviders, cacheLock, sequential, past, lastGood, factoryVars>>

\* var snapshot = GetConfigurationSnapshot()
Snapshot(c) ==
  /\ call[c].pc = "snapshot"
  /\ call' = [call EXCEPT ![c].snapshot = Some(GetConfigurationSnapshot(configuration, FreshRef)),
                          ![c].epoch = changes,
                          ![c].pc = "ensure"]
  /\ hist' = Record([hist EXCEPT !.live = Some(configuration)])
  /\ UNCHANGED <<envVars, cacheVars, lastConfig, enabledProviders, cacheLock>>

\* EnsureConfigurationSnapshot: the comparison with _lastConfig, outside the lock
EnsureCheck(c) ==
  /\ call[c].pc = "ensure"
  /\ call' = [call EXCEPT ![c].pc =
       IF lastConfig = None \/ ~ResolverClientConfigEquals(lastConfig[1], Snap(c))
       THEN "ensure_lock" ELSE AfterEnsure(call[c].op)]
  /\ UNCHANGED <<envVars, hist, cacheVars, lastConfig, enabledProviders, cacheLock>>

\* EnsureConfigurationSnapshot: lock, reset the cache, _enabledProviders.Clear()
EnsureReset(c) ==
  /\ call[c].pc = "ensure_lock"
  /\ cacheLock = "free"
  /\ cacheLock' = c
  /\ catalogCache' = None
  /\ catalogIndex' = None
  /\ catalogCacheTimestamp' = MinValue
  /\ cacheSrc' = None
  /\ enabledProviders' = {}
  /\ call' = [call EXCEPT ![c].pc = "ensure_add", ![c].pos = 1]
  /\ hist' = Record([hist EXCEPT !.reset = TRUE])
  /\ UNCHANGED <<envVars, lastConfig>>

\* EnsureConfigurationSnapshot: one _enabledProviders.Add of the foreach
EnsureAdd(c) ==
  /\ call[c].pc = "ensure_add"
  /\ call[c].pos <= Len(Snap(c).Providers.items)
  /\ enabledProviders' = HashSetAdd(enabledProviders, Snap(c).Providers.items[call[c].pos])
  /\ call' = [call EXCEPT ![c].pos = @ + 1]
  /\ UNCHANGED <<envVars, hist, cacheVars, lastConfig, cacheLock>>

\* a variant of EnsureUnlock that leaves the lock statement without releasing
EnsureUnlockKeeping(c) ==
  /\ call[c].pc = "ensure_add"
  /\ call[c].pos > Len(Snap(c).Providers.items)
  /\ call' = [call EXCEPT ![c].pc = "ensure_store", ![c].pos = 0]
  /\ UNCHANGED <<envVars, hist, cacheVars, lastConfig, enabledProviders, cacheLock>>

\* EnsureConfigurationSnapshot: the end of the lock statement
EnsureUnlock(c) ==
  /\ call[c].pc = "ensure_add"
  /\ call[c].pos > Len(Snap(c).Providers.items)
  /\ cacheLock' = "free"
  /\ call' = [call EXCEPT ![c].pc = "ensure_store", ![c].pos = 0]
  /\ UNCHANGED <<envVars, hist, cacheVars, lastConfig, enabledProviders>>

\* EnsureConfigurationSnapshot: _lastConfig = snapshot, outside the lock
EnsureStore(c) ==
  /\ call[c].pc = "ensure_store"
  /\ lastConfig' = call[c].snapshot
  /\ call' = [call EXCEPT ![c].pc = AfterEnsure(call[c].op)]
  /\ UNCHANGED <<envVars, hist, cacheVars, enabledProviders, cacheLock>>

\* a variant of Decide that waits while another call's catalog request is in flight
DecideSingleFlight(c) ==
  /\ \A d \in Callers \ {c} : call[d].pc # "fetch_wait"
  /\ call[c].pc = "decide"
  /\ cacheLock = "free"
  /\ \E utcNow \in UtcNow :
       LET cacheDuration == GetCatalogCacheDuration(Snap(c))
           hit == /\ cacheDuration > 0
                  /\ catalogCache # None
                  /\ utcNow - catalogCacheTimestamp < cacheDuration
       IN /\ now' = utcNow
          /\ ticks' = IF utcNow > now THEN ticks + 1 ELSE ticks
          /\ call' = [call EXCEPT ![c] =
               IF hit
               THEN [@ EXCEPT !.cacheDuration = cacheDuration, !.cached = catalogCache,
                              !.pc = "hit", !.srcCfg = cacheSrc]
               ELSE [@ EXCEPT !.cacheDuration = cacheDuration, !.pc = "fetch_wait"]]
          /\ hist' = Record([hist EXCEPT !.fetched = ~hit, !.decidedAt = utcNow])
  /\ UNCHANGED <<confVars, cacheVars, lastConfig, enabledProviders, cacheLock>>

\* GetCatalogAsync: the locked look at the cache, then the request if it is not served
Decide(c) ==
  /\ call[c].pc = "decide"
  /\ cacheLock = "free"
  /\ \E utcNow \in UtcNow :
       LET cacheDuration == GetCatalogCacheDuration(Snap(c))
           hit == /\ cacheDuration > 0
                  /\ catalogCache # None
                  /\ utcNow - catalogCacheTimestamp < cacheDuration
       IN /\ now' = utcNow
          /\ ticks' = IF utcNow > now THEN ticks + 1 ELSE ticks
          /\ call' = [call EXCEPT ![c] =
               IF hit
               THEN [@ EXCEPT !.cacheDuration = cacheDuration, !.cached = catalogCache,
                              !.pc = "hit", !.srcCfg = cacheSrc]
               ELSE [@ EXCEPT !.cacheDuration = cacheDuration, !.pc = "fetch_wait"]]
          /\ hist' = Record([hist EXCEPT !.fetched = ~hit, !.decidedAt = utcNow])
  /\ UNCHANGED <<confVars, cacheVars, lastConfig, enabledProviders, cacheLock>>

\* EnsureCatalogIndex
EnsuredIndex ==
  IF catalogCache = None \/ catalogIndex # None THEN catalogIndex
  ELSE Some(BuildCatalogIndex(catalogCache[1]))

\* GetCatalogAsync: EnsureCatalogIndex(); return cached
Hit(c) ==
  /\ call[c].pc = "hit"
  /\ cacheLock = "free"
  /\ catalogIndex' = EnsuredIndex
  /\ call' = [call EXCEPT ![c] = Completed(@, call[c].cached[1], call[c].srcCfg)]
  /\ UNCHANGED <<envVars, hist, catalogCache, catalogCacheTimestamp, cacheSrc, lastConfig,
                 enabledProviders, cacheLock>>

\* what GetFromJsonAsync("catalog") may end with
CatalogResponses ==
  {[kind |-> "ok", body |-> b] : b \in RemoteCatalogs}
  \cup {[kind |-> k, body |-> <<>>] : k \in {"null", "error", "cancelled"}}

\* GetCatalogAsync: the request ends
FetchComplete(c) ==
  /\ call[c].pc = "fetch_wait"
  /\ \E r \in CatalogResponses :
       /\ call' = [call EXCEPT ![c] =
         IF r.kind = "ok"
         THEN [@ EXCEPT !.src = r.body, !.srcCfg = Some(call[c].epoch),
                        !.ctx = IF call[c].cacheDuration > 0
                                THEN "SetCatalogCache" ELSE "SetCatalogIndex",
                        !.pc = "filter"]
         ELSE IF r.kind # "null" /\ CatchClause(r.kind) = "rethrow"
         THEN [Cleared(@) EXCEPT !.pc = "done", !.outcome = "cancelled", !.cancelled = TRUE]
         ELSE IF call[c].cacheDuration > 0
         THEN [@ EXCEPT !.pc = "fallback", !.cancelled = (r.kind = "cancelled")]
         ELSE [Completed(@, <<>>, None) EXCEPT !.cancelled = (r.kind = "cancelled")]]
       /\ hist' = Record([hist EXCEPT
                    !.entries = IF r.kind = "ok" THEN Some(r.body) ELSE None,
                    !.failed = r.kind \in {"null", "error"}])
  /\ UNCHANGED <<envVars, cacheVars, lastConfig, enabledProviders, cacheLock>>

\* ApplyProviderFilter: the test of _enabledProviders.Count
FilterCount(c) ==
  /\ call[c].pc = "filter"
  /\ call' = [call EXCEPT ![c] =
       IF Cardinality(enabledProviders) = 0 \/ Len(call[c].src) = 0
       THEN Filtered(@, <<>>)
       ELSE [@ EXCEPT !.pc = "filter_loop", !.pos = 1, !.filtered = <<>>]]
  /\ UNCHANGED <<envVars, hist, cacheVars, lastConfig, enabledProviders, cacheLock>>

\* ApplyProviderFilter: the Where clause on one entry, as ToArray enumerates
FilterStep(c) ==
  /\ call[c].pc = "filter_loop"
  /\ LET entry == call[c].src[call[c].pos]
         filtered == IF SiteEnabled(entry, enabledProviders)
                     THEN Append(call[c].filtered, entry) ELSE call[c].filtered
     IN call' = [call EXCEPT ![c] =
          IF call[c].pos = Len(call[c].src)
          THEN Filtered(@, filtered)
          ELSE [@ EXCEPT !.pos = @ + 1, !.filtered = filtered]]
  /\ UNCHANGED <<envVars, hist, cacheVars, lastConfig, enabledProviders, cacheLock>>

\* a variant of SetCache that keeps an index it finds
SetCacheKeepingIndex(c) ==
  /\ call[c].pc = "set_cache"
  /\ cacheLock = "free"
  /\ \E utcNow \in UtcNow :
       /\ now' = utcNow
       /\ ticks' = IF utcNow > now THEN ticks + 1 ELSE ticks
       /\ catalogCacheTimestamp' = utcNow
       /\ call' = [call EXCEPT ![c] = Completed(@, call[c].filtered, call[c].srcCfg)]
       /\ hist' = Record([hist EXCEPT !.stored = Some(call[c].filtered), !.storedAt = utcNow])
  /\ catalogCache' = Some(call[c].filtered)
  /\ catalogIndex' = IF catalogIndex # None THEN catalogIndex
                     ELSE Some(BuildCatalogIndex(call[c].filtered))
  /\ cacheSrc' = call[c].srcCfg
  /\ UNCHANGED <<confVars, lastConfig, enabledProviders, cacheLock>>

\* SetCatalogCache: the locked replacement of cache, timestamp and index
SetCache(c) ==
  /\ call[c].pc = "set_cache"
  /\ cacheLock = "free"
  /\ \E utcNow \in UtcNow :
       /\ now' = utcNow
       /\ ticks' = IF utcNow > now THEN ticks + 1 ELSE ticks
       /\ catalogCacheTimestamp' = utcNow
       /\ call' = [call EXCEPT ![c] = Completed(@, call[c].filtered, call[c].srcCfg)]
       /\ hist' = Record([hist EXCEPT !.stored = Some(call[c].filtered), !.storedAt = utcNow])
  /\ catalogCache' = Some(call[c].filtered)
  /\ catalogIndex' = Some(BuildCatalogIndex(call[c].filtered))
  /\ cacheSrc' = call[c].srcCfg
  /\ UNCHANGED <<confVars, lastConfig, enabledProviders, cacheLock>>

\* a variant of SetIndex that persists the entries and a timestamp as well
SetIndexStoring(c) ==
  /\ call[c].pc = "set_index"
  /\ cacheLock = "free"
  /\ catalogCache' = Some(call[c].filtered)
  /\ catalogCacheTimestamp' = now
  /\ catalogIndex' = Some(BuildCatalogIndex(call[c].filtered))
  /\ call' = [call EXCEPT ![c] = Completed(@, call[c].filtered, call[c].srcCfg)]
  /\ UNCHANGED <<envVars, hist, cacheSrc, lastConfig, enabledProviders, cacheLock>>

\* SetCatalogIndex: the locked replacement of the index alone
SetIndex(c) ==
  /\ call[c].pc = "set_index"
  /\ cacheLock = "free"
  /\ catalogIndex' = Some(BuildCatalogIndex(call[c].filtered))
  /\ call' = [call EXCEPT ![c] = Completed(@, call[c].filtered, call[c].srcCfg)]
  /\ UNCHANGED <<envVars, hist, catalogCache, catalogCacheTimestamp, cacheSrc, lastConfig,
                 enabledProviders, cacheLock>>

\* GetCatalogAsync after a failed request: the locked read of _catalogCache
Fallback(c) ==
  /\ call[c].pc = "fallback"
  /\ cacheLock = "free"
  /\ call' = [call EXCEPT ![c] =
       IF catalogCache # None
       THEN [@ EXCEPT !.pc = "fallback_index", !.cached = catalogCache, !.srcCfg = cacheSrc]
       ELSE Completed(@, <<>>, None)]
  /\ UNCHANGED <<envVars, hist, cacheVars, lastConfig, enabledProviders, cacheLock>>

\* GetCatalogAsync after a failed request: EnsureCatalogIndex(), then
\* ApplyProviderFilter(fallback)
FallbackIndex(c) ==
  /\ call[c].pc = "fallback_index"
  /\ cacheLock = "free"
  /\ catalogIndex' = EnsuredIndex
  /\ call' = [call EXCEPT ![c].pc = "filter", ![c].src = call[c].cached[1],
                          ![c].ctx = "Fallback"]
  /\ UNCHANGED <<envVars, hist, catalogCache, catalogCacheTimestamp, cacheSrc, lastConfig,
                 enabledProviders, cacheLock>>

\* a method that awaits GetCatalogAsync has its catalog, or GetCatalogAsync's
\* OperationCanceledException, which it does not catch
Awaited(r, op, arg, result) ==
  IF r.outcome = "cancelled" THEN [r EXCEPT !.op = op, !.arg = arg]
  ELSE [r EXCEPT !.op = op, !.arg = arg, !.catalog = r.result, !.result = result]

\* GetEntryByIdAsync after its GetCatalogAsync: the locked read of
\* _catalogIndex, TryGetValue, else the scan of the catalog; a cancelled
\* GetCatalogAsync throws through it
EntryIndex(c) ==
  /\ call[c].pc = "done"
  /\ call[c].op = "GetCatalogAsync"
  /\ call[c].outcome = "cancelled" \/ cacheLock = "free"
  /\ \E entryId \in EntryIdInputs :
       LET key == ToLowerInvariant(entryId)
           catalog == call[c].result[1]
           found == IF catalogIndex # None /\ key \in DOMAIN catalogIndex[1]
                    THEN Some(catalogIndex[1][key])
                    ELSE FirstOrDefault(SelectSeq(catalog,
                           LAMBDA e : EqualsIgnoreCase(StreamarrCatalogEntry[e].Id, entryId)))
       IN call' = [call EXCEPT ![c] = Awaited(@, "GetEntryByIdAsync", entryId, found)]
  /\ UNCHANGED <<envVars, hist, cacheVars, lastConfig, enabledProviders, cacheLock>>

\* FindMovieAsync after its GetCatalogAsync
FindMovieAsync(c) ==
  /\ call[c].pc = "done"
  /\ call[c].op = "GetCatalogAsync"
  /\ Quiet(c)
  /\ \E lookup \in MovieLookupInputs :
       call' = [call EXCEPT ![c] = Awaited(@, "FindMovieAsync", lookup,
         FirstOrDefault(SelectSeq(call[c].result[1],
           LAMBDA e : /\ IsMovie(StreamarrCatalogEntry[e])
                      /\ MatchesMovie(StreamarrCatalogEntry[e], lookup))))]
  /\ UNCHANGED <<envVars, hist, cacheVars, lastConfig, enabledProviders, cacheLock>>

\* FindSeriesMatchesAsync after its GetCatalogAsync
FindSeriesMatchesAsync(c) ==
  /\ call[c].pc = "done"
  /\ call[c].op = "GetCatalogAsync"
  /\ Quiet(c)
  /\ \E lookup \in SeriesLookupInputs :
       call' = [call EXCEPT ![c] = Awaited(@, "FindSeriesMatchesAsync", lookup,
         LET matches == SeriesMatches(call[c].result[1], lookup)
         IN Some([i \in 1..Len(matches) |-> matches[i].value]))]
  /\ UNCHANGED <<envVars, hist, cacheVars, lastConfig, enabledProviders, cacheLock>>

\* FindEpisodeAsync after its GetCatalogAsync
FindEpisodeAsync(c) ==
  /\ call[c].pc = "done"
  /\ call[c].op = "GetCatalogAsync"
  /\ Quiet(c)
  /\ \E lookup \in EpisodeLookupInputs :
       call' = [call EXCEPT ![c] = Awaited(@, "FindEpisodeAsync", lookup,
         FirstOrDefault(SelectSeq(call[c].result[1],
           LAMBDA e : /\ IsEpisode(StreamarrCatalogEntry[e])
                      /\ MatchesEpisode(StreamarrCatalogEntry[e], lookup))))]
  /\ UNCHANGED <<envVars, hist, cacheVars, lastConfig, enabledProviders, cacheLock>>

----------------------------------------------------------------------------
(* ResolveStreamAsync and GetHealthAsync *)

TokenT1 == <<"t","1">>
StreamUrl == <<"h","t","t","p",":","/","/","r",".","l","a","n","/","s","t","r","e","a","m","/","t","1">>
StatusOk == <<"o","k">>
StatusOkUpper == <<"O","K">>
StatusDown == <<"d","o","w","n">>
Unknown == <<"u","n","k","n","o","w","n">>
HttpPrefix == <<"H","T","T","P"," ">>
MessageRefused == <<"r","e","f","u","s","e","d">>
MessageJson == <<"b","a","d"," ","j","s","o","n">>
\* the formatting of (int)response.StatusCode in the interpolated string
RECURSIVE IntToString(_)
IntToString(n) ==
  IF n < 10 THEN <<Digits[n + 1]>> ELSE IntToString(n \div 10) \o <<Digits[(n % 10) + 1]>>

\* what GetFromJsonAsync("play/<id>?format=json") may end with
PlayResponses ==
  { [kind |-> "ok", body |-> Some([Token |-> TokenT1, StreamUrl |-> StreamUrl,
                                   ExpiresAt |-> StartTime + 60])],
    [kind |-> "ok", body |-> None] }
  \cup {[kind |-> k, body |-> None] :
          k \in {"HttpRequestException: transport", "HttpRequestException: status",
                 "JsonException", "cancelled"}}

\* ResolveStreamAsync: the request ends
PlayComplete(c) ==
  /\ call[c].pc = "play_wait"
  /\ \E r \in PlayResponses :
       call' = [call EXCEPT ![c] =
         IF r.kind = "ok"
         THEN [@ EXCEPT !.pc = "done", !.result = r.body, !.outcome = "ok", !.ended = <<r>>]
         ELSE IF CatchClause(r.kind) = "rethrow"
         THEN [@ EXCEPT !.pc = "done", !.outcome = "cancelled", !.cancelled = TRUE,
                        !.ended = <<r>>]
         ELSE [@ EXCEPT !.pc = "done", !.result = None, !.outcome = "ok",
                        !.cancelled = (r.kind = "cancelled"), !.ended = <<r>>]]
  /\ UNCHANGED <<envVars, hist, cacheVars, lastConfig, enabledProviders, cacheLock>>

HealthStatus(isHealthy, summary) == [IsHealthy |-> isHealthy, Summary |-> summary]

\* the catch (Exception ex) block of GetHealthAsync
HealthFailure(r, kind, message) ==
  [r EXCEPT !.pc = "done", !.result = Some(HealthStatus(FALSE, message)), !.outcome = "ok",
            !.cancelled = (kind = "cancelled")]

\* what client.GetAsync("health") may end with
HealthResponses ==
  {[kind |-> "status", code |-> n, message |-> Empty] : n \in {200, 503}}
  \cup {[kind |-> "error", code |-> 0, message |-> MessageRefused],
        [kind |-> "cancelled", code |-> 0, message |-> Empty]}

\* a variant of IsSuccessStatusCode that takes every status for a success
IsSuccessStatusCodeAlways(code) == TRUE

\* HttpResponseMessage.IsSuccessStatusCode
IsSuccessStatusCode(code) == 200 <= code /\ code <= 299

\* GetHealthAsync: GetAsync ends
HealthResponse(c) ==
  /\ call[c].pc = "health_wait"
  /\ \E r \in HealthResponses :
       call' = [call EXCEPT ![c] = [(
         IF r.kind = "status"
         THEN IF ~IsSuccessStatusCode(r.code)
              THEN [@ EXCEPT !.pc = "done", !.outcome = "ok",
                             !.result = Some(HealthStatus(FALSE, HttpPrefix \o IntToString(r.code)))]
              ELSE [@ EXCEPT !.pc = "health_read"]
         ELSE IF CatchClause(r.kind) = "rethrow"
         THEN [@ EXCEPT !.pc = "done", !.outcome = "cancelled", !.cancelled = TRUE]
         ELSE HealthFailure(@, r.kind, r.message)) EXCEPT !.ended = Append(@, r)]]
  /\ UNCHANGED <<envVars, hist, cacheVars, lastConfig, enabledProviders, cacheLock>>

\* what ReadFromJsonAsync<ResolverHealthPayload> may end with; status is payload.Status
HealthPayloads ==
  {[kind |-> "ok", payload |-> Some(st), message |-> Empty] :
      st \in {StatusOkUpper, StatusDown, NULL}}
  \cup {[kind |-> "ok", payload |-> None, message |-> Empty],
        [kind |-> "error", payload |-> None, message |-> MessageJson],
        [kind |-> "cancelled", payload |-> None, message |-> Empty]}

\* GetHealthAsync: ReadFromJsonAsync ends
HealthRead(c) ==
  /\ call[c].pc = "health_read"
  /\ \E r \in HealthPayloads :
       call' = [call EXCEPT ![c] = [(
         IF r.kind = "ok"
         THEN LET status == IF r.payload = None THEN NULL ELSE r.payload[1]
              IN [@ EXCEPT !.pc = "done", !.outcome = "ok",
                           !.result = Some(HealthStatus(EqualsIgnoreCase(status, StatusOk),
                                                        IF status = NULL THEN Unknown ELSE status))]
         ELSE IF CatchClause(r.kind) = "rethrow"
         THEN [@ EXCEPT !.pc = "done", !.outcome = "cancelled", !.cancelled = TRUE]
         ELSE HealthFailure(@, r.kind, r.message)) EXCEPT !.ended = Append(@, r)]]
  /\ UNCHANGED <<envVars, hist, cacheVars, lastConfig, enabledProviders, cacheLock>>

\* the method returns to its caller (or throws); the history of the last
\* catalog cached by a sequential call is brought up to date
Return(c) ==
  /\ call[c].pc = "done"
  /\ lastGood' =
       IF ~sequential \/ call[c].snapshot = None THEN lastGood
       ELSE IF hist.stored # None
       THEN Some([live |-> hist.live[1], result |-> hist.stored[1], at |-> hist.storedAt])
       ELSE IF lastGood # None /\ lastGood[1].live # hist.live[1] THEN None
       ELSE lastGood
  /\ call' = [call EXCEPT ![c] = IdleCall]
  /\ UNCHANGED <<configuration, changes, now, ticks, started, sequential, cacheVars,
                 lastConfig, enabledProviders, cacheLock, past, hist, factoryVars>>

----------------------------------------------------------------------------
(* The shared fields each statement touches *)

\* the fields the next statement of a call reads, by its position
Reads(r) ==
  IF r.pc = "ensure" THEN {"_lastConfig"}
  ELSE IF r.pc = "decide" THEN {"_catalogCache", "_catalogCacheTimestamp"}
  ELSE IF r.pc \in {"hit", "fallback_index"} THEN {"_catalogCache", "_catalogIndex"}
  ELSE IF r.pc \in {"filter", "filter_loop"} THEN {"_enabledProviders"}
  ELSE IF r.pc = "fallback" THEN {"_catalogCache"}
  ELSE IF r.pc = "done" /\ r.op = "GetCatalogAsync" THEN {"_catalogIndex"}
  ELSE {}

\* the fields the next statement of a call writes, by its position
Writes(r) ==
  IF r.pc = "ensure_lock"
  THEN {"_catalogCache", "_catalogIndex", "_catalogCacheTimestamp", "_enabledProviders"}
  ELSE IF r.pc = "ensure_add" THEN {"_enabledProviders"}
  ELSE IF r.pc = "ensure_store" THEN {"_lastConfig"}
  ELSE IF r.pc = "set_cache" THEN {"_catalogCache", "_catalogIndex", "_catalogCacheTimestamp"}
  ELSE IF r.pc \in {"set_index", "hit", "fallback_index"} THEN {"_catalogIndex"}
  ELSE {}

\* whether the next statement of a call is inside a lock (_cacheLock) statement
InsideLock(r) ==
  r.pc \in {"ensure_lock", "ensure_add", "decide", "hit", "fallback_index", "set_cache",
            "set_index", "fallback"}
  \/ (r.pc = "done" /\ r.op = "GetCatalogAsync")

----------------------------------------------------------------------------
(* Specifications *)

Next ==
  \/ SetConfig
  \/ \E c \in Callers :
       \/ Begin(c)
       \/ Snapshot(c)
       \/ EnsureCheck(c)
       \/ EnsureReset(c)
       \/ EnsureAdd(c)
       \/ EnsureUnlock(c)
       \/ EnsureStore(c)
       \/ Decide(c)
       \/ Hit(c)
       \/ FetchComplete(c)
       \/ FilterCount(c)
       \/ FilterStep(c)
       \/ SetCache(c)
       \/ SetIndex(c)
       \/ Fallback(c)
       \/ FallbackIndex(c)
       \/ EntryIndex(c)
       \/ FindMovieAsync(c)
       \/ FindSeriesMatchesAsync(c)
       \/ FindEpisodeAsync(c)
       \/ PlayComplete(c)
       \/ HealthResponse(c)
       \/ HealthRead(c)
       \/ Return(c)

Spec == Init /\ [][Next]_vars

\* the steps of a call that is under way: its thread is scheduled, the lock is
\* granted when it is free, and its request completes, fails or is cancelled
Proceed(c) ==
  \/ Snapshot(c)
  \/ EnsureCheck(c)
  \/ EnsureReset(c)
  \/ EnsureAdd(c)
  \/ EnsureUnlock(c)
  \/ EnsureStore(c)
  \/ Decide(c)
  \/ Hit(c)
  \/ FetchComplete(c)
  \/ FilterCount(c)
  \/ FilterStep(c)
  \/ SetCache(c)
  \/ SetIndex(c)
  \/ Fallback(c)
  \/ FallbackIndex(c)
  \/ PlayComplete(c)
  \/ HealthResponse(c)
  \/ HealthRead(c)

\* a step of Proceed(c) can be taken: the call is under way and the lock it is
\* about to take, if any, is free
Ready(c) ==
  /\ call[c].pc \notin {"idle", "done"}
  /\ call[c].pc \in {"ensure_lock", "decide", "hit", "set_cache", "set_index",
                      "fallback", "fallback_index"} => cacheLock = "free"

\* weak fairness of Proceed(c), WF_vars(Proceed(c)), with its enabling
\* condition written out as Ready(c)
WeaklyFair(c) == []<>(~Ready(c)) \/ []<><<Proceed(c)>>_vars

\* the client with callers whose threads keep running
LiveSpec == Spec /\ \A c \in Callers : WeaklyFair(c)

\* the snapshots taken of the configurations the plugin may be started with
ConfigNext == \E c \in Callers : Begin(c) \/ Snapshot(c)

ConfigSpec == ConfigInit /\ [][ConfigNext]_vars

\* the lookups the host may hand to the matchers: the fields of MovieInfoLookup,
\* SeriesInfoLookup and EpisodeInfoLookup in one record, of which each matcher
\* reads its own; a lookup carries either names or a series name and numbers
MatchLookupInputs ==
  LET providerIds == {NULL, Blank, IdNobody, IdKara, IdUp, SeriesKara,
                      <<"d","i","z","i","b","o","x",":","k","a","r","a","-","s","e","v","d","a",":","s","0","1","e","0","1">>,
                      <<"h","d","f","i","l","m",":","k","a","r","a","-","s","e","v","d","a">>}
  IN [Name : {NULL, TitleUp, QueryKara, TitleUp \o <<" ","3">>},
      OriginalTitle : {NULL, TitleNobody},
      ProviderId : providerIds,
      SeriesName : {NULL}, SeasonNumber : {None}, EpisodeNumber : {None},
      SeriesProviderId : {NULL}]
     \cup
     [Name : {NULL}, OriginalTitle : {NULL},
      ProviderId : providerIds,
      SeriesName : {NULL, TitleUp, QueryKara},
      SeasonNumber : {None, Some(2), Some(3)},
      EpisodeNumber : {None, Some(5), Some(7)},
      SeriesProviderId : {NULL, SeriesKara}]

\* a caller holds a catalog and a lookup, and is about to match them; the
\* catalogs are each entry alone, and lists with several episodes of one series
\* and of several series
MatchInit ==
  /\ configuration = DefaultConfiguration
  /\ sequential = TRUE
  /\ changes = 0
  /\ now = StartTime
  /\ ticks = 0
  /\ catalogCache = None
  /\ catalogIndex = None
  /\ catalogCacheTimestamp = MinValue
  /\ lastConfig = None
  /\ enabledProviders = {}
  /\ cacheLock = "free"
  /\ Loaded
  /\ \E catalog \in { <<entry>> : entry \in DOMAIN StreamarrCatalogEntry } \cup
                     { <<"Kara", "KaraNext">>, <<"KaraNext", "Kara">>,
                       <<"Ezel", "Kara", "KaraNext">>,
                       <<"Nobody", "Kara", "Loose", "KaraNext", "Bare", "Loose">> },
        lookup \in MatchLookupInputs :
       call = [c \in Callers |->
                 IF c = SeqCaller
                 THEN [IdleCall EXCEPT !.pc = "match", !.arg = lookup,
                                       !.catalog = Some(catalog)]
                 ELSE IdleCall]
  /\ started = 1
  /\ past = <<>>
  /\ cacheSrc = None
  /\ hist = NoHist
  /\ lastGood = None

\* the matcher named op has answered
Matched(r, op, answer) ==
  [r EXCEPT !.pc = "matched", !.op = op, !.result = Some(answer)]

\* entry.MatchesMovie(lookup)
ApplyMatchesMovie(c) ==
  /\ call[c].pc = "match"
  /\ Len(call[c].catalog[1]) = 1
  /\ call' = [call EXCEPT ![c] = Matched(@, "MatchesMovie",
       MatchesMovie(StreamarrCatalogEntry[call[c].catalog[1][1]], call[c].arg))]
  /\ UNCHANGED <<envVars, hist, cacheVars, lastConfig, enabledProviders, cacheLock>>

\* entry.MatchesSeries(lookup)
ApplyMatchesSeries(c) ==
  /\ call[c].pc = "match"
  /\ Len(call[c].catalog[1]) = 1
  /\ call' = [call EXCEPT ![c] = Matched(@, "MatchesSeries",
       MatchesSeries(StreamarrCatalogEntry[call[c].catalog[1][1]], call[c].arg))]
  /\ UNCHANGED <<envVars, hist, cacheVars, lastConfig, enabledProviders, cacheLock>>

\* entry.MatchesEpisode(lookup)
ApplyMatchesEpisode(c) ==
  /\ call[c].pc = "match"
  /\ Len(call[c].catalog[1]) = 1
  /\ call' = [call EXCEPT ![c] = Matched(@, "MatchesEpisode",
       MatchesEpisode(StreamarrCatalogEntry[call[c].catalog[1][1]], call[c].arg))]
  /\ UNCHANGED <<envVars, hist, cacheVars, lastConfig, enabledProviders, cacheLock>>

\* entry.MatchesEpisodeNumbers(lookup.SeasonNumber, lookup.EpisodeNumber)
ApplyMatchesEpisodeNumbers(c) ==
  /\ call[c].pc = "match"
  /\ Len(call[c].catalog[1]) = 1
  /\ call' = [call EXCEPT ![c] = Matched(@, "MatchesEpisodeNumbers",
       MatchesEpisodeNumbers(StreamarrCatalogEntry[call[c].catalog[1][1]],
                             call[c].arg.SeasonNumber, call[c].arg.EpisodeNumber))]
  /\ UNCHANGED <<envVars, hist, cacheVars, lastConfig, enabledProviders, cacheLock>>

\* entry.SeriesSlug, entry.SeasonNumber and entry.EpisodeNumber read together
DerivedFields(c) ==
  /\ call[c].pc = "match"
  /\ Len(call[c].catalog[1]) = 1
  /\ call' = [call EXCEPT ![c] = Matched(@, "DerivedFields",
       LET entry == StreamarrCatalogEntry[call[c].catalog[1][1]]
       IN [SeriesSlug |-> SeriesSlug(entry), SeasonNumber |-> SeasonNumber(entry),
           EpisodeNumber |-> EpisodeNumber(entry)])]
  /\ UNCHANGED <<envVars, hist, cacheVars, lastConfig, enabledProviders, cacheLock>>

\* the foreach of FindSeriesMatchesAsync over a catalog, and its matches.Values.ToList()
ApplySeriesMatches(c) ==
  /\ call[c].pc = "match"
  /\ call' = [call EXCEPT ![c] = Matched(@, "SeriesMatches",
       LET matches == SeriesMatches(call[c].catalog[1], call[c].arg)
       IN [i \in 1..Len(matches) |-> matches[i].value])]
  /\ UNCHANGED <<envVars, hist, cacheVars, lastConfig, enabledProviders, cacheLock>>

\* ResolveMovieEntryAsync of a MovieInfo on a catalog
ApplyResolveMovieEntry(c) ==
  /\ call[c].pc = "match"
  /\ call' = [call EXCEPT ![c] = Matched(@, "ResolveMovieEntry",
       ResolveMovieEntry(call[c].catalog[1], call[c].arg))]
  /\ UNCHANGED <<envVars, hist, cacheVars, lastConfig, enabledProviders, cacheLock>>

\* ResolveSeriesEntryAsync of a SeriesInfo on a catalog
ApplyResolveSeriesEntry(c) ==
  /\ call[c].pc = "match"
  /\ call' = [call EXCEPT ![c] = Matched(@, "ResolveSeriesEntry",
       ResolveSeriesEntry(call[c].catalog[1], call[c].arg))]
  /\ UNCHANGED <<envVars, hist, cacheVars, lastConfig, enabledProviders, cacheLock>>

\* ResolveEpisodeEntryAsync of an EpisodeInfo on a catalog
ApplyResolveEpisodeEntry(c) ==
  /\ call[c].pc = "match"
  /\ call' = [call EXCEPT ![c] = Matched(@, "ResolveEpisodeEntry",
       ResolveEpisodeEntry(call[c].catalog[1], call[c].arg))]
  /\ UNCHANGED <<envVars, hist, cacheVars, lastConfig, enabledProviders, cacheLock>>

\* entry.ToSeriesSearchResult(), and what the slug rule and a later series
\* lookup make of the provider id it emits
SeriesRoundTrip(c) ==
  /\ call[c].pc = "match"
  /\ Len(call[c].catalog[1]) = 1
  /\ call' = [call EXCEPT ![c] = Matched(@, "ToSeriesSearchResult",
       LET entry == StreamarrCatalogEntry[call[c].catalog[1][1]]
           providerId == GetProviderId(ToSeriesSearchResult(entry).ProviderId)
       IN [ProviderId |-> providerId,
           SeriesSlug |-> ExtractSeriesSlug(Trim(providerId)),
           Matches |-> MatchesSeries(entry, SeriesInfoLookup(NULL, NULL, providerId)),
           Entry |-> GetSeriesEntryForProvider(call[c].catalog[1], providerId)])]
  /\ UNCHANGED <<envVars, hist, cacheVars, lastConfig, enabledProviders, cacheLock>>

\* the matchers applied to the entries and lookups
MatchNext ==
  \E c \in Callers :
    \/ ApplyMatchesMovie(c)
    \/ ApplyMatchesSeries(c)
    \/ ApplyMatchesEpisode(c)
    \/ ApplyMatchesEpisodeNumbers(c)
    \/ DerivedFields(c)
    \/ ApplySeriesMatches(c)
    \/ ApplyResolveMovieEntry(c)
    \/ ApplyResolveSeriesEntry(c)
    \/ ApplyResolveEpisodeEntry(c)
    \/ SeriesRoundTrip(c)

MatchSpec == MatchInit /\ [][MatchNext]_vars

----------------------------------------------------------------------------
(* StreamarrMetadataClientFactory: the client the metadata providers share *)

\* how often the host constructs each metadata provider
MaxConstructions == 2

\* the host constructs a metadata provider, whose constructor calls GetClient
ConstructProvider(p) ==
  /\ provider[p].pc = "idle"
  /\ Len(provider[p].apiClient) < MaxConstructions
  /\ provider' = [provider EXCEPT ![p].pc = "lock"]
  /\ UNCHANGED <<instance, SyncRoot, constructed, clientVars>>

\* Monitor.Enter: a thread goes on when no thread holds the lock
MonitorEnterUnguarded(holder) == TRUE
MonitorEnter(holder) == holder = "free"

\* lock (SyncRoot)
LockSyncRoot(p) ==
  /\ provider[p].pc = "lock"
  /\ MonitorEnter(SyncRoot)
  /\ SyncRoot' = p
  /\ provider' = [provider EXCEPT ![p].pc = "read"]
  /\ UNCHANGED <<instance, constructed, clientVars>>

\* _instance ??= ...: the field is read
ReadInstance(p) ==
  /\ provider[p].pc = "read"
  /\ provider' = [provider EXCEPT ![p].pc = "coalesce", ![p].local = instance]
  /\ UNCHANGED <<instance, SyncRoot, constructed, clientVars>>

\* _instance ??= new StreamarrApiClient(...): a client is constructed and
\* stored if the field was null
CoalesceInstance(p) ==
  /\ provider[p].pc = "coalesce"
  /\ IF provider[p].local = None
     THEN /\ constructed' = constructed + 1
          /\ instance' = Some(constructed + 1)
          /\ provider' = [provider EXCEPT ![p].pc = "return",
                                           ![p].local = Some(constructed + 1)]
     ELSE /\ provider' = [provider EXCEPT ![p].pc = "return"]
          /\ UNCHANGED <<instance, constructed, clientVars>>
  /\ UNCHANGED <<SyncRoot, clientVars>>

\* return ...; the lock is released and the constructor stores the client in _apiClient
ReturnClient(p) ==
  /\ provider[p].pc = "return"
  /\ SyncRoot' = "free"
  /\ provider' = [provider EXCEPT ![p].pc = "idle", ![p].local = None,
                                   ![p].apiClient = Append(@, provider[p].local[1])]
  /\ UNCHANGED <<instance, constructed, clientVars>>

\* the host constructs the metadata providers on any of its threads, and each
\* constructor runs StreamarrMetadataClientFactory.GetClient
FactoryNext ==
  \E p \in MetadataProviders :
    \/ ConstructProvider(p)
    \/ LockSyncRoot(p)
    \/ ReadInstance(p)
    \/ CoalesceInstance(p)
    \/ ReturnClient(p)

FactorySpec == Init /\ [][FactoryNext]_vars

----------------------------------------------------------------------------
(* Properties *)

Range(seq) == {seq[i] : i \in 1..Len(seq)}

\* the entries of a remote catalog whose site is, compared case-insensitively,
\* one of the providers, in remote order
EnabledEntries(entries, providers) ==
  SelectSeq(entries, LAMBDA e :
    /\ ~IsNullOrWhiteSpace(StreamarrCatalogEntry[e].Site)
    /\ \E i \in 1..Len(providers) :
         ToLowerInvariant(StreamarrCatalogEntry[e].Site) = ToLowerInvariant(providers[i]))

\* the value of a snapshot: its fields with the providers' elements as a set
ConfigValue(s) ==
  [BaseUrl |-> s.BaseUrl, ApiKey |-> s.ApiKey, CacheMinutes |-> s.CacheMinutes,
   DisableCache |-> s.DisableCache,
   Providers |-> {s.Providers.items[i] : i \in 1..Len(s.Providers.items)}]

\* a sequential GetCatalogAsync call has ended
SeqCatalogDone ==
  /\ sequential
  /\ call[SeqCaller].pc = "done"
  /\ call[SeqCaller].op = "GetCatalogAsync"

\* the call before the running one cached a catalog under the configuration
\* that is still the live one, caching is enabled, and the running call looked
\* at the cache within the TTL
SecondWithinTtl ==
  /\ SeqCatalogDone
  /\ lastGood # None
  /\ lastGood[1].live = hist.live[1]
  /\ ~hist.live[1].DisableCatalogCache
  /\ hist.decidedAt - lastGood[1].at < GetCatalogCacheDuration(Snap(SeqCaller))

\* C1: with caching enabled and the live configuration unchanged, the second of
\* two sequential GetCatalog calls, starting within the TTL of the catalog the
\* first one fetched, sends no request and returns the entries the first cached.
IdempotentCacheHit ==
  SecondWithinTtl =>
    /\ ~hist.fetched
    /\ call[SeqCaller].result = Some(lastGood[1].result)

\* C2: a sequential operation resets the cache only if no snapshot was applied
\* before or its snapshot differs by value from the applied one.
ResetOnlyOnValueChange ==
  \A c \in Callers :
    sequential /\ call[c].pc = "ensure_lock" =>
      lastConfig = None \/ ConfigValue(lastConfig[1]) # ConfigValue(Snap(c))

\* the running sequential GetCatalogAsync call sees another configuration than
\* the call before it
ChangedBetweenCalls ==
  /\ sequential
  /\ call[SeqCaller].op = "GetCatalogAsync"
  /\ hist.live # None
  /\ hist.prev # None
  /\ hist.live # hist.prev

\* C3: when the configuration changes between two sequential calls, the second
\* GetCatalog call has, before it looks at the cache, reset entries, index and
\* fetchedAt and made the enabled providers those of the new snapshot; it sends
\* a request; and when the request succeeds it returns the remote entries
\* filtered by the new providers.
ConfigChangeInvalidates ==
  ChangedBetweenCalls =>
    /\ call[SeqCaller].pc = "decide" =>
         /\ hist.reset
         /\ ~hist.fetched
         /\ catalogCache = None
         /\ catalogIndex = None
         /\ catalogCacheTimestamp = MinValue
         /\ enabledProviders = Range(Snap(SeqCaller).Providers.items)
    /\ call[SeqCaller].pc = "done" => hist.fetched
    /\ call[SeqCaller].pc = "done" /\ hist.entries # None =>
         call[SeqCaller].result =
           Some(EnabledEntries(hist.entries[1], Snap(SeqCaller).Providers.items))

\* C3 happens: the first call cached both remote entries, the providers were
\* then narrowed to hdfilm, and the second call, within the TTL, fetched again
\* and returned the hdfilm entry alone
ConfigChangeInvalidatesWitness ==
  /\ ChangedBetweenCalls
  /\ call[SeqCaller].pc = "done"
  /\ lastGood # None
  /\ lastGood[1].result = <<"Nobody", "Kara">>
  /\ hist.decidedAt - lastGood[1].at < GetCatalogCacheDuration(Snap(SeqCaller))
  /\ hist.live[1].EnabledProviders # hist.prev[1].EnabledProviders
  /\ hist.entries = Some(<<"Nobody", "Kara">>)
  /\ call[SeqCaller].result = Some(<<"Nobody">>)

\* C4: no GetCatalog call whose snapshot was taken after a configuration change
\* returns entries that were fetched under a configuration from before it.
NoEntriesOfPreviousConfiguration ==
  \A c \in Callers :
    call[c].pc = "done" /\ call[c].op = "GetCatalogAsync" /\ call[c].resCfg # None =>
      call[c].resCfg[1] >= call[c].epoch

\* C5: a sequential GetCatalog call whose request fails with another error than
\* a cancellation raises nothing and returns the entries last cached under the
\* unchanged configuration if caching is enabled and there are such, and the
\* empty list otherwise.
StaleFallback ==
  SeqCatalogDone /\ hist.failed =>
    /\ call[SeqCaller].outcome = "ok"
    /\ call[SeqCaller].result =
         IF /\ GetCatalogCacheDuration(Snap(SeqCaller)) > 0
            /\ lastGood # None
            /\ lastGood[1].live = hist.live[1]
         THEN Some(lastGood[1].result)
         ELSE Some(<<>>)

\* C6: an operation whose request was cancelled ends with the cancellation and
\* returns nothing in its place.
CancellationPropagates ==
  \A c \in Callers :
    call[c].cancelled =>
      /\ call[c].pc = "done"
      /\ call[c].outcome = "cancelled"
      /\ call[c].result = None

\* C6 happens: a cancelled request ended a method that awaits GetCatalogAsync
CancellationPropagatesWitness ==
  \E c \in Callers :
    /\ call[c].cancelled
    /\ call[c].op = "FindSeriesMatchesAsync"
    /\ call[c].outcome = "cancelled"

\* a sequential GetCatalogAsync call has ended whose snapshot was taken of a
\* configuration with an empty list of enabled providers
EmptyProvidersDone ==
  /\ SeqCatalogDone
  /\ hist.live[1].EnabledProviders = <<>>
  /\ call[SeqCaller].outcome = "ok"

\* C7 as stated: with enabledProviders = [] GetCatalog returns the empty list,
\* whatever the remote catalog holds.
FailClosedOnEmptyList ==
  EmptyProvidersDone => call[SeqCaller].result = Some(<<>>)

\* C7 amended: with enabledProviders = [] the snapshot's providers are the
\* built-in defaults, and a GetCatalog call whose request succeeds returns
\* exactly the remote entries of the default providers, in remote order.
EmptyListMeansDefaults ==
  EmptyProvidersDone =>
    /\ Snap(SeqCaller).Providers.items = DefaultProviders
    /\ hist.entries # None =>
         call[SeqCaller].result = Some(EnabledEntries(hist.entries[1], DefaultProviders))

\* C7 amended happens: with enabledProviders = [] a call returned both the
\* hdfilm and the dizibox entry of the remote catalog
EmptyListMeansDefaultsWitness ==
  /\ EmptyProvidersDone
  /\ hist.entries = Some(<<"Nobody", "Kara">>)
  /\ call[SeqCaller].result = Some(<<"Nobody", "Kara">>)

\* the positions of the non-blank elements of a configured provider list
NonBlankElements(providers) ==
  IF providers = NullArray THEN {}
  ELSE {i \in 1..Len(providers) : ~IsNullOrWhiteSpace(providers[i])}

\* the providers of a snapshot are non-empty, lower-cased, trimmed, not blank
\* and free of duplicates
WellFormedProviders(items) ==
  /\ Len(items) > 0
  /\ \A i \in 1..Len(items) :
       /\ items[i] # NULL
       /\ ~IsNullOrWhiteSpace(items[i])
       /\ items[i] = ToLowerInvariant(items[i])
       /\ items[i] = Trim(items[i])
       /\ \A j \in 1..Len(items) : j # i => items[j] # items[i]

\* C8 as stated: the snapshot's providers are well formed and are the default
\* set {dizibox, hdfilm} exactly when the configured list has no non-blank
\* element.
DefaultsExactlyWhenNoneGiven ==
  \A c \in Callers :
    call[c].snapshot # None =>
      /\ WellFormedProviders(Snap(c).Providers.items)
      /\ Range(Snap(c).Providers.items) = Range(DefaultProviders)
           <=> NonBlankElements(configuration.EnabledProviders) = {}

\* C8 amended: the snapshot's providers are well formed; they are the default
\* providers whenever the configured list has no non-blank element, and
\* otherwise the trimmed, lower-cased non-blank elements of the list.
ProvidersNormalized ==
  \A c \in Callers :
    call[c].snapshot # None =>
      LET given == configuration.EnabledProviders
          items == Snap(c).Providers.items
      IN /\ WellFormedProviders(items)
         /\ IF NonBlankElements(given) = {}
            THEN items = DefaultProviders
            ELSE Range(items) =
                   {ToLowerInvariant(Trim(given[i])) : i \in NonBlankElements(given)}

\* C8 amended happens: a list with a padded mixed-case name, its duplicate and
\* a blank became the one provider hdfilm
ProvidersNormalizedWitness ==
  \E c \in Callers :
    /\ call[c].snapshot # None
    /\ configuration.EnabledProviders = <<HdfilmMixed, Hdfilm, Blank>>
    /\ Snap(c).Providers.items = <<Hdfilm>>

\* C9: a sequential GetCatalog call whose request succeeds returns exactly the
\* remote entries whose site is, compared case-insensitively, one of the
\* enabled providers, in remote order; entries with a blank site are dropped.
ReturnsEnabledEntries ==
  SeqCatalogDone /\ hist.entries # None =>
    /\ call[SeqCaller].outcome = "ok"
    /\ call[SeqCaller].result =
         Some(EnabledEntries(hist.entries[1], Snap(SeqCaller).Providers.items))

\* C9 happens: with hdfilm alone enabled, a remote catalog of one hdfilm movie
\* and one dizibox episode gave exactly the hdfilm movie
ReturnsEnabledEntriesWitness ==
  /\ SeqCatalogDone
  /\ Snap(SeqCaller).Providers.items = <<Hdfilm>>
  /\ hist.entries = Some(<<"Nobody", "Kara">>)
  /\ call[SeqCaller].result = Some(<<"Nobody">>)
  /\ IsMovie(StreamarrCatalogEntry["Nobody"])
  /\ IsEpisode(StreamarrCatalogEntry["Kara"])

\* the look of GetCatalogAsync at the cache by caller c
ServedFromCache(c) ==
  /\ ~Snap(c).DisableCache
  /\ catalogCache # None
  /\ now' - catalogCacheTimestamp < Clamp(Snap(c).CacheMinutes, 1, 1440)

\* C10: GetCatalog serves the cached entries without a request if and only if
\* disableCache is false, entries are cached and now - fetchedAt < d, where d is
\* cacheMinutes clamped to 1..1440, and 0 when disableCache is set; in every
\* other case it sends a request.
CacheServedIffFresh ==
  [][\A c \in Callers :
       call[c].pc = "decide" /\ call'[c].pc # "decide" =>
         /\ call'[c].pc = IF ServedFromCache(c) THEN "hit" ELSE "fetch_wait"
         /\ call'[c].cacheDuration =
              IF Snap(c).DisableCache THEN 0 ELSE Clamp(Snap(c).CacheMinutes, 1, 1440)
         /\ call'[c].pc = "hit" => call'[c].cached = catalogCache]_vars

\* C10 happens: a call found entries cached a minute or more ago and still
\* within d, and is about to return them without a request
CacheServedIffFreshWitness ==
  \E c \in Callers :
    /\ call[c].pc = "hit"
    /\ now - catalogCacheTimestamp > 0
    /\ now - catalogCacheTimestamp < call[c].cacheDuration
    /\ call[c].cached = catalogCache

\* a sequential GetCatalogAsync call is past EnsureConfigurationSnapshot with
\* DisableCatalogCache set
DisabledCacheCall ==
  /\ sequential
  /\ call[SeqCaller].op = "GetCatalogAsync"
  /\ call[SeqCaller].pc \notin {"idle", "snapshot", "ensure", "ensure_lock", "ensure_add",
                                "ensure_store"}
  /\ Snap(SeqCaller).DisableCache

\* C11: with disableCache set every GetCatalog call sends a request, and a
\* successful one replaces the index alone, so that during and after sequential
\* calls made with disableCache set no entries are cached and fetchedAt is at
\* its zero value; with d > 0 a successful request replaces entries, index and
\* fetchedAt in one step.
DisabledCacheStoresIndexOnly ==
  [][/\ \A c \in Callers :
          /\ call[c].pc = "decide" /\ call'[c].pc # "decide" /\ Snap(c).DisableCache =>
               call'[c].pc = "fetch_wait"
          /\ call'[c].pc = "set_index" => call'[c].cacheDuration = 0
          /\ call'[c].pc = "set_cache" => call'[c].cacheDuration > 0
          /\ call[c].pc = "set_index" /\ call'[c].pc = "done" =>
               /\ catalogIndex' = Some(BuildCatalogIndex(call'[c].result[1]))
               /\ UNCHANGED <<catalogCache, catalogCacheTimestamp>>
          /\ call[c].pc = "set_cache" /\ call'[c].pc = "done" =>
               /\ catalogCache' = call'[c].result
               /\ catalogIndex' = Some(BuildCatalogIndex(call'[c].result[1]))
               /\ catalogCacheTimestamp' = now'
     /\ DisabledCacheCall' =>
          /\ catalogCache' = None
          /\ catalogCacheTimestamp' = MinValue
          /\ call'[SeqCaller].pc = "done" => hist'.fetched]_vars

\* C11 happens: after a call that cached two entries, a call made with
\* disableCache set fetched them again and left their index, no cached entries
\* and fetchedAt at its zero value
DisabledCacheStoresIndexOnlyWitness ==
  /\ DisabledCacheCall
  /\ call[SeqCaller].pc = "done"
  /\ lastGood # None
  /\ call[SeqCaller].result = Some(<<"Nobody", "Kara">>)
  /\ catalogIndex = Some(BuildCatalogIndex(<<"Nobody", "Kara">>))
  /\ catalogCache = None
  /\ catalogCacheTimestamp = MinValue

\* caller c has compared its snapshot with the applied one and has not yet
\* decided between the cache and a request
BetweenCheckAndDecision(c) ==
  /\ call[c].op = "GetCatalogAsync"
  /\ call[c].pc \in {"ensure_lock", "ensure_add", "ensure_store", "decide"}

\* C12: the comparison of the snapshot with the applied one, the reset and the
\* cache decision of one GetCatalog call are one critical section: while a call
\* is between its comparison and its decision, no step of another call changes
\* the cached entries, fetchedAt or the applied snapshot.
CheckAndDecisionAtomic ==
  [][\A c \in Callers :
       BetweenCheckAndDecision(c) /\ call'[c] = call[c] =>
         UNCHANGED <<catalogCache, catalogCacheTimestamp, lastConfig>>]_vars

\* C13: every access to the cached entries, the index, fetchedAt, the applied
\* snapshot and the enabled providers is made holding the cache lock: in no
\* state are two calls about to access the same field, one of them writing it
\* and one of them outside the lock.
NoUnlockedConflict ==
  \A c, d \in Callers :
    c # d =>
      \/ Writes(call[c]) \cap (Reads(call[d]) \cup Writes(call[d])) = {}
      \/ InsideLock(call[c]) /\ InsideLock(call[d])

\* the request of a call is in flight
InFlight(c) == call[c].pc \in {"fetch_wait", "play_wait", "health_wait", "health_read"}

\* C14: no call holds the cache lock while its request for the catalog, a
\* playback token or the health status is in flight.
NoLockWhileInFlight ==
  \A c \in Callers : InFlight(c) => cacheLock # c

\* C14 happens: while one call's catalog request is in flight another call
\* holds the lock
NoLockWhileInFlightWitness ==
  \E c, d \in Callers :
    /\ c # d
    /\ call[c].pc = "fetch_wait"
    /\ cacheLock = d

\* C15: whenever no call holds the lock, the cached entries, the index and
\* fetchedAt belong together: an index next to cached entries is the id-to-entry
\* map of those entries, and entries are cached if and only if fetchedAt is not
\* its zero value.  (The index that SetCatalogIndex leaves without cached
\* entries is not counted against the claim.)
CacheEntryConsistent ==
  cacheLock = "free" =>
    /\ catalogCache # None /\ catalogIndex # None =>
         catalogIndex = Some(BuildCatalogIndex(catalogCache[1]))
    /\ catalogCache = None <=> catalogCacheTimestamp = MinValue

\* as of the last reading of the clock, caller c would not be served from the cache
AbsentOrExpired(c) ==
  ~ /\ GetCatalogCacheDuration(Snap(c)) > 0
    /\ catalogCache # None
    /\ now - catalogCacheTimestamp < GetCatalogCacheDuration(Snap(c))

\* C16: a GetCatalog call that finds the cache absent or expired sends its own
\* request without waiting for the request of another call that is in flight.
NoSingleFlight ==
  \A c, d \in Callers :
    /\ c # d
    /\ call[c].pc = "decide"
    /\ call[d].pc = "fetch_wait"
    /\ cacheLock = "free"
    /\ AbsentOrExpired(c)
    => ENABLED (Decide(c) /\ call'[c].pc = "fetch_wait")

\* C16 happens: two catalog requests are in flight at once
NoSingleFlightWitness ==
  \A c \in Callers : call[c].pc = "fetch_wait" /\ call[c].op = "GetCatalogAsync"

\* every caller has a catalog from GetCatalogAsync that was fetched, by itself
\* or by the call that cached it
AllFetched ==
  \A c \in Callers :
    /\ call[c].pc = "done"
    /\ call[c].op = "GetCatalogAsync"
    /\ call[c].outcome = "ok"
    /\ call[c].resCfg # None

\* C17: while the configuration stays the same, the cached entries change only
\* by a reset or by the replace step of a call, which puts that call's filtered
\* entries, their index and the time of the step in place together; so once
\* all concurrent calls have their catalogs, entries, index and fetchedAt are
\* wholly those of one call, whose replace step was the last.
LastWriteWins ==
  [][changes' = 0 =>
       /\ \A c \in Callers :
            call[c].pc = "set_cache" /\ call'[c].pc = "done" =>
              /\ catalogCache' = Some(call[c].filtered)
              /\ catalogIndex' = Some(BuildCatalogIndex(call[c].filtered))
              /\ catalogCacheTimestamp' = now'
              /\ call'[c].result = catalogCache'
       /\ catalogCache' # catalogCache =>
            \/ \E c \in Callers : call[c].pc = "set_cache" /\ call'[c].pc = "done"
            \/ catalogCache' = None /\ catalogIndex' = None
                 /\ catalogCacheTimestamp' = MinValue
       /\ AllFetched' =>
            \E c \in Callers :
              /\ catalogCache' = call'[c].result
              /\ catalogIndex' = Some(BuildCatalogIndex(call'[c].result[1]))
              /\ catalogCacheTimestamp' # MinValue]_vars

\* C17 happens: two concurrent calls fetched different catalogs under the
\* same configuration, and entries and index are those of one of them
LastWriteWinsWitness ==
  /\ changes = 0
  /\ ~sequential
  /\ AllFetched
  /\ \E c, d \in Callers :
       /\ call[c].result = Some(<<"Nobody", "Kara">>)
       /\ call[d].result = Some(<<"UpUpper">>)
       /\ catalogCache = call[d].result
       /\ catalogIndex = Some(BuildCatalogIndex(<<"UpUpper">>))

\* the entries of a catalog whose id is, ignoring case, the given one
EntriesWithId(catalog, id) ==
  {i \in 1..Len(catalog) : EqualsIgnoreCase(StreamarrCatalogEntry[catalog[i]].Id, id)}

\* C18: GetEntryById returns none for a null or blank id without a look at the
\* catalog; for another id it returns an entry of that id, ignoring case, when
\* the catalog that GetCatalog gave it holds one, and none otherwise.
EntryByIdFromCatalog ==
  \A c \in Callers :
    call[c].pc = "done" /\ call[c].op = "GetEntryByIdAsync" /\ call[c].outcome = "ok" =>
      IF IsNullOrWhiteSpace(call[c].arg)
      THEN call[c].result = None /\ call[c].snapshot = None /\ call[c].catalog = None
      ELSE IF EntriesWithId(call[c].catalog[1], call[c].arg) = {}
      THEN call[c].result = None
      ELSE /\ call[c].result # None
           /\ EqualsIgnoreCase(StreamarrCatalogEntry[call[c].result[1]].Id, call[c].arg)

\* the positions of the entries of a catalog that a Find method's matcher accepts
Accepted(op, catalog, lookup) ==
  {i \in 1..Len(catalog) :
     IF op = "FindMovieAsync" THEN MatchesMovie(StreamarrCatalogEntry[catalog[i]], lookup)
     ELSE MatchesEpisode(StreamarrCatalogEntry[catalog[i]], lookup)}

\* the entries a Find method returned
Found(r) ==
  IF r.result = None THEN {}
  ELSE IF r.op = "FindSeriesMatchesAsync" THEN Range(r.result[1])
  ELSE {r.result[1]}

\* the site of an entry is one of the providers of a snapshot
EnabledIn(entry, snapshot) ==
  \E i \in 1..Len(snapshot.Providers.items) :
    EqualsIgnoreCase(StreamarrCatalogEntry[entry].Site, snapshot.Providers.items[i])

\* C19: FindMovie and FindEpisode return the first entry of the catalog that
\* GetCatalog gave them that the matcher accepts, or none when it accepts none,
\* and no Find method returns an entry whose site is not an enabled provider.
FindReturnsFirstEnabledMatch ==
  \A c \in Callers :
    call[c].pc = "done" /\ call[c].op \in FindOps /\ call[c].outcome = "ok" =>
      /\ call[c].op # "FindSeriesMatchesAsync" =>
           LET accepted == Accepted(call[c].op, call[c].catalog[1], call[c].arg)
           IN IF accepted = {} THEN call[c].result = None
              ELSE \E i \in accepted :
                     /\ \A j \in accepted : i <= j
                     /\ call[c].result = Some(call[c].catalog[1][i])
      /\ \A entry \in Found(call[c]) : EnabledIn(entry, Snap(c))

\* the entry a matcher was applied to
MatchedEntry(c) == StreamarrCatalogEntry[call[c].catalog[1][1]]

\* the provider id of the lookup is not blank and is the entry's id, ignoring case
SameId(c) ==
  /\ ~IsNullOrWhiteSpace(call[c].arg.ProviderId)
  /\ EqualsIgnoreCase(call[c].arg.ProviderId, MatchedEntry(c).Id)

\* the type a matcher accepts
RightType(c) ==
  IF call[c].op = "MatchesMovie" THEN IsMovie(MatchedEntry(c)) ELSE IsEpisode(MatchedEntry(c))

\* C20: when the provider id of the lookup is not blank and is the entry's id,
\* ignoring case, the movie matcher accepts exactly the entries of type movie
\* and the series and episode matchers exactly those of type episode, whatever
\* titles, series name and numbers the lookup has; and no matcher accepts an
\* entry of the wrong type.
IdTakesPrecedence ==
  \A c \in Callers :
    call[c].pc = "matched" /\ call[c].op \in {"MatchesMovie", "MatchesSeries", "MatchesEpisode"} =>
      /\ SameId(c) => call[c].result = Some(RightType(c))
      /\ call[c].result = Some(TRUE) => RightType(c)

\* C20 happens: the movie hdfilm:nobody-2 titled "Nobody 2" matches a lookup
\* with its id and the name "Up", and the episode s02e05 matches a lookup with
\* its id and the numbers 3 and 7
IdTakesPrecedenceWitness ==
  \E c \in Callers :
    /\ call[c].pc = "matched"
    /\ SameId(c)
    /\ call[c].op \in {"MatchesMovie", "MatchesEpisode"}
    /\ call[c].result = Some(TRUE)
    /\ \/ /\ call[c].op = "MatchesMovie"
          /\ MatchedEntry(c).Title = TitleNobody
          /\ call[c].arg.Name = TitleUp
          /\ call[c].arg.OriginalTitle = NULL
       \/ /\ call[c].op = "MatchesEpisode"
          /\ MatchedEntry(c).Id = IdKara
          /\ call[c].arg.SeasonNumber = Some(3)
          /\ call[c].arg.EpisodeNumber = Some(7)

\* a local title and an entry's title or original title are equal, or the
\* entry's holds the local one, ignoring case
TitleHolds(entry, query) ==
  /\ ~IsNullOrWhiteSpace(query)
  /\ \E title \in {entry.Title} \cup
                  (IF IsNullOrWhiteSpace(entry.OriginalTitle) THEN {} ELSE {entry.OriginalTitle}) :
       \/ EqualsIgnoreCase(title, query)
       \/ ContainsIgnoreCase(title, query)

\* ... or the local title holds the entry's
TitleEitherWay(entry, query) ==
  \/ TitleHolds(entry, query)
  \/ /\ ~IsNullOrWhiteSpace(query)
     /\ \E title \in {entry.Title} \cup
                     (IF IsNullOrWhiteSpace(entry.OriginalTitle) THEN {} ELSE {entry.OriginalTitle}) :
          ContainsIgnoreCase(query, title)

\* the movie matcher has answered for a movie and a lookup whose provider id is
\* blank or is not the entry's id
MovieMatchedByTitle(c) ==
  /\ call[c].pc = "matched"
  /\ call[c].op = "MatchesMovie"
  /\ IsMovie(MatchedEntry(c))
  /\ ~SameId(c)

\* C21 as stated: for a movie entry and a lookup whose provider id is blank or
\* is not the entry's id, the movie matcher accepts exactly when the lookup's
\* name or original title equals, is held by, or holds the entry's title or
\* original title, ignoring case; a blank local title matches nothing.
TitleMatchIsSymmetric ==
  \A c \in Callers :
    MovieMatchedByTitle(c) =>
      call[c].result = Some(\/ TitleEitherWay(MatchedEntry(c), call[c].arg.Name)
                            \/ TitleEitherWay(MatchedEntry(c), call[c].arg.OriginalTitle))

\* C21 amended: for a movie entry and a lookup whose provider id is blank or is
\* not the entry's id, the movie matcher accepts exactly when the lookup's name
\* or original title is not blank and equals or is held by the entry's title or
\* non-blank original title, ignoring case; a local title that only holds the
\* entry's title is not accepted.
TitleMatchIsOneWay ==
  \A c \in Callers :
    MovieMatchedByTitle(c) =>
      call[c].result = Some(\/ TitleHolds(MatchedEntry(c), call[c].arg.Name)
                            \/ TitleHolds(MatchedEntry(c), call[c].arg.OriginalTitle))

\* C21 amended happens: the movie titled "Up" is not matched by a lookup named
\* "Up 3" without original title and provider id
TitleMatchIsOneWayWitness ==
  \E c \in Callers :
    /\ MovieMatchedByTitle(c)
    /\ MatchedEntry(c).Title = TitleUp
    /\ call[c].arg.Name = TitleUp \o <<" ","3">>
    /\ call[c].arg.OriginalTitle = NULL
    /\ call[c].arg.ProviderId = NULL
    /\ call[c].result = Some(FALSE)

\* the parts of a provider id '<site>:<slug>' or '<site>:<slug>:s<n>e<m>'
PartsOf(providerId) ==
  IF IsNullOrWhiteSpace(providerId) THEN <<>> ELSE SplitRemoveEmptyEntries(providerId, Colon)

\* the slug rule of the series matcher applies, for a provider id of any site
SlugRuleOfAnySite(c, providerId) ==
  /\ Len(PartsOf(providerId)) >= 2
  /\ EqualsIgnoreCase(PartsOf(providerId)[2], SeriesSlug(MatchedEntry(c)))

\* the slug rule applies, for a provider id of the site dizibox
SlugRuleOfDizibox(c, providerId) ==
  /\ SlugRuleOfAnySite(c, providerId)
  /\ EqualsIgnoreCase(PartsOf(providerId)[1], Dizibox)

\* the answer of the title comparison of the series matcher
SeriesTitleComparison(c) ==
  \/ TitleMatches(MatchedEntry(c), call[c].arg.Name)
  \/ TitleMatches(MatchedEntry(c), call[c].arg.OriginalTitle)

\* the series matcher has answered for an episode entry
SeriesMatched(c) ==
  /\ call[c].pc = "matched"
  /\ call[c].op = "MatchesSeries"
  /\ IsEpisode(MatchedEntry(c))

\* C22 as stated: for an episode entry the series matcher accepts every lookup
\* whose provider id, of whatever site, has the series slug of the entry,
\* ignoring case and whatever the names of the lookup; when the provider id
\* neither is the entry's id nor has its slug, the answer is that of the title
\* comparison.
SeriesMatchedBySlug ==
  \A c \in Callers :
    SeriesMatched(c) =>
      /\ SlugRuleOfAnySite(c, call[c].arg.ProviderId) => call[c].result = Some(TRUE)
      /\ ~SameId(c) /\ ~SlugRuleOfAnySite(c, call[c].arg.ProviderId)
         => call[c].result = Some(SeriesTitleComparison(c))

\* C22 amended: for an episode entry the series matcher accepts every lookup
\* whose provider id is of the site dizibox (ignoring case) and has the series
\* slug of the entry, ignoring case and whatever the names of the lookup; a
\* provider id of another site has no slug, and when the provider id neither is
\* the entry's id nor a dizibox id with its slug, the answer is that of the
\* title comparison.
SeriesMatchedByDiziboxSlug ==
  \A c \in Callers :
    SeriesMatched(c) =>
      /\ SlugRuleOfDizibox(c, call[c].arg.ProviderId) => call[c].result = Some(TRUE)
      /\ ~SameId(c) /\ ~SlugRuleOfDizibox(c, call[c].arg.ProviderId)
         => call[c].result = Some(SeriesTitleComparison(c))

\* C22 amended happens: the episode s02e05 of kara-sevda is matched by a lookup
\* named "Up" with the bare reference dizibox:kara-sevda
SeriesMatchedByDiziboxSlugWitness ==
  \E c \in Callers :
    /\ SeriesMatched(c)
    /\ MatchedEntry(c).Id = IdKara
    /\ call[c].arg.ProviderId = SeriesKara
    /\ call[c].arg.Name = TitleUp
    /\ ~SeriesTitleComparison(c)
    /\ call[c].result = Some(TRUE)

\* the key of the series an entry belongs to: its series slug, or its id
SeriesKey(name) ==
  LET entry == StreamarrCatalogEntry[name]
  IN IF IsNullOrWhiteSpace(SeriesSlug(entry)) THEN entry.Id ELSE SeriesSlug(entry)

\* the positions of a catalog whose entry is an episode the series matcher accepts
AcceptedAt(catalog, lookup) ==
  {i \in 1..Len(catalog) : /\ IsEpisode(StreamarrCatalogEntry[catalog[i]])
                           /\ MatchesSeries(StreamarrCatalogEntry[catalog[i]], lookup)}

\* C23: the list FindSeriesMatches builds from a catalog holds no two entries
\* whose series keys are equal ignoring case, holds only episodes of the
\* catalog that the series matcher accepts, holds an entry of the series of
\* every accepted entry, and each entry it holds is the first accepted entry of
\* its series in the order of the catalog.
SeriesMatchesDeduplicated ==
  \A c \in Callers :
    call[c].pc = "matched" /\ call[c].op = "SeriesMatches" =>
      LET catalog == call[c].catalog[1]
          found == call[c].result[1]
          accepted == AcceptedAt(catalog, call[c].arg)
      IN /\ \A i, j \in 1..Len(found) :
              i # j => ~EqualsIgnoreCase(SeriesKey(found[i]), SeriesKey(found[j]))
         /\ \A k \in 1..Len(found) : \E i \in accepted : catalog[i] = found[k]
         /\ \A i \in accepted :
              \E k \in 1..Len(found) : EqualsIgnoreCase(SeriesKey(found[k]), SeriesKey(catalog[i]))
         /\ \A k \in 1..Len(found) :
              \E i \in accepted :
                /\ catalog[i] = found[k]
                /\ \A j \in accepted :
                     EqualsIgnoreCase(SeriesKey(catalog[j]), SeriesKey(found[k])) => i <= j

\* C23 happens: of a catalog with a movie, episodes of kara-sevda whose ids spell
\* the slug in different cases and episodes without a composite id, a lookup
\* named "sevda" gets three entries, the second kara-sevda episode left out
SeriesMatchesDeduplicatedWitness ==
  \E c \in Callers :
    /\ call[c].pc = "matched"
    /\ call[c].op = "SeriesMatches"
    /\ call[c].catalog[1] = <<"Nobody", "Kara", "Loose", "KaraNext", "Bare", "Loose">>
    /\ Cardinality(AcceptedAt(call[c].catalog[1], call[c].arg)) = 5
    /\ call[c].result[1] = <<"Kara", "Loose", "Bare">>

\* a number of the lookup and the number derived from the entry are both present
\* and differ
Differ(wanted, derived) == wanted # None /\ derived # None /\ wanted[1] # derived[1]

\* C24: for every episode entry and lookup, the confirmation of the season and
\* episode numbers fails exactly when the lookup's season and the entry's
\* derived season are both present and differ, or the lookup's episode and the
\* entry's derived episode are; a number absent from the lookup or from the
\* entry never makes it fail.
ConfirmationIsPermissive ==
  \A c \in Callers :
    /\ call[c].pc = "matched"
    /\ call[c].op = "MatchesEpisodeNumbers"
    /\ IsEpisode(MatchedEntry(c))
    => /\ call[c].result = Some(~ \/ Differ(call[c].arg.SeasonNumber, SeasonNumber(MatchedEntry(c)))
                                  \/ Differ(call[c].arg.EpisodeNumber, EpisodeNumber(MatchedEntry(c))))
       /\ call[c].arg.SeasonNumber = None /\ call[c].arg.EpisodeNumber = None
          => call[c].result = Some(TRUE)
       /\ SeasonNumber(MatchedEntry(c)) = None /\ EpisodeNumber(MatchedEntry(c)) = None
          => call[c].result = Some(TRUE)

\* C24 happens: an episode from whose id and subtitle no number can be derived
\* is confirmed for a lookup that names season 2 and episode 5
ConfirmationIsPermissiveWitness ==
  \E c \in Callers :
    /\ call[c].pc = "matched"
    /\ call[c].op = "MatchesEpisodeNumbers"
    /\ IsEpisode(MatchedEntry(c))
    /\ SeasonNumber(MatchedEntry(c)) = None
    /\ EpisodeNumber(MatchedEntry(c)) = None
    /\ call[c].arg.SeasonNumber = Some(2)
    /\ call[c].arg.EpisodeNumber = Some(5)
    /\ call[c].result = Some(TRUE)

\* the slug rule of the episode matcher applies through the provider id, or else
\* through the series-level provider id
EpisodeSlugRule(c) ==
  \/ SlugRuleOfDizibox(c, call[c].arg.ProviderId)
  \/ SlugRuleOfDizibox(c, call[c].arg.SeriesProviderId)

\* the confirmation of the numbers of the lookup against the entry
Confirmed(c) ==
  ~ \/ Differ(call[c].arg.SeasonNumber, SeasonNumber(MatchedEntry(c)))
    \/ Differ(call[c].arg.EpisodeNumber, EpisodeNumber(MatchedEntry(c)))

\* C25: for an episode entry whose id is not the lookup's provider id, when the
\* slug of the provider id, or else that of the series-level provider id, is the
\* entry's series slug, the episode matcher answers exactly the confirmation of
\* the season and episode numbers: the series name is not consulted, and a
\* failed confirmation is a no-match.
EpisodeMatchedBySlug ==
  \A c \in Callers :
    /\ call[c].pc = "matched"
    /\ call[c].op = "MatchesEpisode"
    /\ IsEpisode(MatchedEntry(c))
    /\ ~SameId(c)
    /\ EpisodeSlugRule(c)
    => call[c].result = Some(Confirmed(c))

\* C25 happens: the episode s02e05 of kara-sevda is matched, through the slug of
\* a series-level provider id, by a lookup with season 2, episode 5 and the
\* series name "Up", which is not its title
EpisodeMatchedBySlugWitness ==
  \E c \in Callers :
    /\ call[c].pc = "matched"
    /\ call[c].op = "MatchesEpisode"
    /\ MatchedEntry(c).Id = IdKara
    /\ ~SameId(c)
    /\ ~SlugMatches(MatchedEntry(c), call[c].arg.ProviderId)
    /\ call[c].arg.SeriesProviderId = SeriesKara
    /\ call[c].arg.SeriesName = TitleUp
    /\ ~TitleMatches(MatchedEntry(c), call[c].arg.SeriesName)
    /\ call[c].arg.SeasonNumber = Some(2)
    /\ call[c].arg.EpisodeNumber = Some(5)
    /\ call[c].result = Some(TRUE)

\* the episode matcher has answered for an episode entry and a lookup to which
\* neither the id rule nor a slug rule applies
EpisodeMatchedByName(c) ==
  /\ call[c].pc = "matched"
  /\ call[c].op = "MatchesEpisode"
  /\ IsEpisode(MatchedEntry(c))
  /\ ~SameId(c)
  /\ ~EpisodeSlugRule(c)

\* C26: for an episode entry and a lookup to which no id rule and no slug rule
\* applies, a non-blank series name that neither equals nor is held by the
\* entry's title or original title, ignoring case, gives no match whatever the
\* numbers are; when the series name is blank or matches, the answer is exactly
\* the confirmation of the season and episode numbers.
EpisodeNameShortCircuit ==
  \A c \in Callers :
    EpisodeMatchedByName(c) =>
      IF /\ ~IsNullOrWhiteSpace(call[c].arg.SeriesName)
         /\ ~TitleHolds(MatchedEntry(c), call[c].arg.SeriesName)
      THEN call[c].result = Some(FALSE)
      ELSE call[c].result = Some(Confirmed(c))

\* C26 happens: the episode s02e05 titled "Kara Sevda" is not matched by a lookup
\* with the series name "Up", season 2 and episode 5 and no provider ids
EpisodeNameShortCircuitWitness ==
  \E c \in Callers :
    /\ EpisodeMatchedByName(c)
    /\ MatchedEntry(c).Id = IdKara
    /\ call[c].arg.ProviderId = NULL
    /\ call[c].arg.SeriesProviderId = NULL
    /\ call[c].arg.SeriesName = TitleUp
    /\ call[c].arg.SeasonNumber = Some(2)
    /\ call[c].arg.EpisodeNumber = Some(5)
    /\ Confirmed(c)
    /\ call[c].result = Some(FALSE)

\* the position of the letter e in the last part of an id of the composite form
\* '<site>:<slug>:s<season>e<episode>', letters in either case; 0 for another id
CompositeAt(id) ==
  LET parts == Split(id, Colon)
  IN IF Len(parts) # 3 \/ parts[1] = <<>> \/ parts[2] = <<>> \/ Len(parts[3]) < 4 THEN 0
     ELSE LET last == parts[3]
              at == {i \in 3..(Len(last) - 1) :
                       /\ last[1] \in {"s", "S"}
                       /\ last[i] \in {"e", "E"}
                       /\ \A j \in (2..Len(last)) \ {i} : IsDigit(last[j])}
          IN IF at = {} THEN 0 ELSE CHOOSE i \in at : TRUE

\* the derived fields of an episode entry: those encoded in a composite id, and
\* for another id the id itself and the numbers of the subtitle
DerivedFrom(entry, composite) ==
  IF composite
  THEN LET parts == Split(entry.Id, Colon)
           i == CompositeAt(entry.Id)
       IN [SeriesSlug |-> parts[2],
           SeasonNumber |-> Some(DigitsValue(SubSeq(parts[3], 2, i - 1))),
           EpisodeNumber |-> Some(DigitsValue(SubSeq(parts[3], i + 1, Len(parts[3]))))]
  ELSE [SeriesSlug |-> entry.Id,
        SeasonNumber |-> ParseNumberFromSubtitle(entry, SeasonSubtitleRegex),
        EpisodeNumber |-> ParseNumberFromSubtitle(entry, EpisodeSubtitleRegex)]

\* the derived fields of an episode entry have been read
DerivedRead(c) ==
  /\ call[c].pc = "matched"
  /\ call[c].op = "DerivedFields"
  /\ IsEpisode(MatchedEntry(c))

Ended(c, op) == call[c].op = op /\ call[c].pc = "done" /\ Len(call[c].ended) > 0

\* C28: ResolvePlayback returns the token, stream url and expiry the resolver
\* answered with when the request succeeds, returns none without raising when
\* the request fails in transport, by a non-success status or by a malformed
\* body, and raises only when the request was cancelled.
ResolveReturnsOrNone ==
  \A c \in Callers :
    Ended(c, "ResolveStreamAsync") =>
      LET r == call[c].ended[1]
      IN /\ Len(call[c].ended) = 1
         /\ r.kind = "ok" => call[c].outcome = "ok" /\ call[c].result = r.body
         /\ r.kind \notin {"ok", "cancelled"} => call[c].outcome = "ok" /\ call[c].result = None
         /\ call[c].outcome # "ok" <=> r.kind = "cancelled"

\* C28 happens: a request that ended with a non-success status made
\* ResolvePlayback return none
ResolveReturnsOrNoneWitness ==
  \E c \in Callers :
    /\ Ended(c, "ResolveStreamAsync")
    /\ call[c].ended[1].kind = "HttpRequestException: status"
    /\ call[c].outcome = "ok"
    /\ call[c].result = None

\* the request of a health call got a success status and a body whose status is
\* "ok" in some case
HealthyAnswer(c) ==
  /\ Len(call[c].ended) = 2
  /\ call[c].ended[1].kind = "status"
  /\ call[c].ended[1].code \in 200..299
  /\ call[c].ended[2].kind = "ok"
  /\ call[c].ended[2].payload # None
  /\ ToLowerInvariant(call[c].ended[2].payload[1]) = <<"o","k">>

\* C29: Health raises only when its request or the reading of the body was
\* cancelled; it reports healthy exactly when the request got a success status
\* and a body whose status is "ok" ignoring case; a non-success status gives
\* unhealthy with "HTTP <status>" as summary, and a transport error or a
\* malformed body gives unhealthy with the error's message as summary.
HealthNeverRaises ==
  \A c \in Callers :
    Ended(c, "GetHealthAsync") =>
      LET last == call[c].ended[Len(call[c].ended)]
      IN /\ call[c].outcome # "ok" <=> last.kind = "cancelled"
         /\ call[c].outcome = "ok" =>
              /\ call[c].result # None
              /\ call[c].result[1].IsHealthy <=> HealthyAnswer(c)
              /\ last.kind = "status" =>
                   /\ last.code = 503
                   /\ call[c].result[1] = [IsHealthy |-> FALSE,
                                           Summary |-> <<"H","T","T","P"," ","5","0","3">>]
              /\ last.kind = "error" =>
                   call[c].result[1] = [IsHealthy |-> FALSE, Summary |-> last.message]

\* C29 happens: a health request answered 200 with the status "OK" is reported
\* healthy
HealthNeverRaisesWitness ==
  \E c \in Callers :
    /\ Ended(c, "GetHealthAsync")
    /\ HealthyAnswer(c)
    /\ call[c].ended[2].payload[1] = StatusOkUpper
    /\ call[c].outcome = "ok"
    /\ call[c].result[1].IsHealthy

\* C30: in every interleaving of calls and configuration changes, the entries
\* that a GetCatalog call has filtered from a fetched or cached list, and is
\* about to store or return, are exactly the entries of that list whose site is
\* one of the providers of the call's own snapshot; with enabled providers and
\* entries of their sites it is not the empty list.
FilteredByOwnSnapshot ==
  \A c \in Callers :
    call[c].pc \in {"set_cache", "set_index"} =>
      call[c].filtered = EnabledEntries(call[c].src, Snap(c).Providers.items)

\* a call is inside the invalidation step of EnsureConfigurationSnapshot: it has
\* found its snapshot different and has not yet recorded it
Invalidating(c) == call[c].pc \in {"ensure_lock", "ensure_add", "ensure_store"}

\* C31: whenever no call is inside the invalidation step, the set of enabled
\* providers the filter uses holds exactly the providers of the snapshot
\* recorded as the last applied one (and nothing before any snapshot was
\* applied); two calls with different snapshots never leave one snapshot
\* recorded and the providers of the other in the set.
FilterSetOfLastConfig ==
  (\A c \in Callers : ~Invalidating(c)) =>
    enabledProviders = IF lastConfig = None THEN {}
                       ELSE Range(lastConfig[1].Providers.items)

\* every client the provider instances constructed so far were given
Clients == UNION {Range(provider[p].apiClient) : p \in MetadataProviders}

\* C32: under any interleaving of GetClient calls at most one StreamarrApiClient
\* is ever constructed, and every GetClient call returns that same instance,
\* the one the factory holds
OneSharedClient ==
  /\ constructed <= 1
  /\ Clients # {} => instance # None /\ Clients = {instance[1]}

\* every metadata provider was constructed, one of them twice, while another
\* constructor waits for the lock a third one holds
OneSharedClientWitness ==
  /\ \A p \in MetadataProviders : provider[p].apiClient # <<>>
  /\ \E p, q \in MetadataProviders :
       /\ provider[p].pc = "lock"
       /\ provider[q].pc = "coalesce"
       /\ SyncRoot = q

\* C33: ResolvePlayback and Health are read-only with respect to the catalog
\* cache: while the configuration is unchanged, no step of a ResolveStreamAsync
\* or GetHealthAsync call of callers that take turns changes the cached
\* entries, the index or the time of the fetch.
PlaybackAndHealthReadOnly ==
  [][(/\ sequential
      /\ changes' = 0
      /\ call[SeqCaller].op \in {"ResolveStreamAsync", "GetHealthAsync"})
     => UNCHANGED <<catalogCache, catalogIndex, catalogCacheTimestamp>>]_vars

\* caller c takes a step of a GetCatalogAsync call whose request has failed or
\* was cancelled: the end of the request itself, the read of the fallback, the
\* EnsureCatalogIndex before it is returned, or what it does with the fallback
FailedFetchStep(c) ==
  /\ call'[c] # call[c]
  /\ \/ call[c].pc = "fetch_wait" /\ call'[c].pc # "filter"
     \/ call[c].pc \in {"fallback", "fallback_index"}
     \/ call[c].ctx = "Fallback"

\* C34: no step of a failed or cancelled catalog fetch changes the cached
\* entries or the time of the fetch, and the index changes only by being
\* rebuilt from the cached entries: a failure is never cached and never
\* refreshes the timestamp.
FailedFetchLeavesCache ==
  [][\A c \in Callers :
       FailedFetchStep(c) =>
         /\ UNCHANGED <<catalogCache, catalogCacheTimestamp>>
         /\ \/ UNCHANGED catalogIndex
            \/ /\ catalogCache # None
               /\ catalogIndex' = Some(BuildCatalogIndex(catalogCache[1]))]_vars

\* a call whose request failed is about to return the entries another call
\* cached in the meantime, and rebuilt the index from them
FailedFetchLeavesCacheWitness ==
  \E c \in Callers :
    /\ call[c].pc = "filter"
    /\ call[c].ctx = "Fallback"
    /\ catalogCache # None
    /\ Len(catalogCache[1]) > 0
    /\ catalogIndex = Some(BuildCatalogIndex(catalogCache[1]))
    /\ DOMAIN catalogIndex[1] # {}

\* C35: in every interleaving, the entry that GetEntryById returns is an entry
\* of the catalog that the same call resolved.
EntryOfOwnCatalog ==
  \A c \in Callers :
    /\ call[c].pc = "done"
    /\ call[c].op = "GetEntryByIdAsync"
    /\ call[c].outcome = "ok"
    /\ call[c].result # None
    => call[c].result[1] \in Range(call[c].catalog[1])

\* the provider lookup op has yielded a catalog entry
Yielded(c, op) ==
  call[c].pc = "matched" /\ call[c].op = op /\ call[c].result[1] # None

\* C36: a movie lookup of a metadata provider never yields a catalog entry that
\* is not of type movie, and a series or episode lookup never yields one that is
\* not of type episode, whatever provider id is stored.
ProviderEntityKind ==
  \A c \in Callers :
    /\ Yielded(c, "ResolveMovieEntry") =>
         IsMovie(StreamarrCatalogEntry[call[c].result[1][1]])
    /\ Yielded(c, "ResolveSeriesEntry") \/ Yielded(c, "ResolveEpisodeEntry") =>
         IsEpisode(StreamarrCatalogEntry[call[c].result[1][1]])

\* C37: for every episode entry, the slug rule takes the entry's series slug
\* out of the series-level provider id emitted for it, and a series lookup that
\* stores this id matches the entry and finds it by the slug, also when the
\* series slug is the raw id.
SeriesProviderIdRoundTrip ==
  \A c \in Callers :
    /\ call[c].pc = "matched"
    /\ call[c].op = "ToSeriesSearchResult"
    /\ IsEpisode(StreamarrCatalogEntry[call[c].catalog[1][1]])
    => /\ call[c].result[1].SeriesSlug = SeriesSlug(StreamarrCatalogEntry[call[c].catalog[1][1]])
       /\ call[c].result[1].Matches
       /\ call[c].result[1].Entry = Some(call[c].catalog[1][1])

\* C38: with concurrent callers, every call that is under way ends with exactly
\* one outcome, a result or a cancellation, and the cache lock, once taken, is
\* released: no call waits for ever.
CallsEnd ==
  /\ \A c \in Callers :
       (call[c].pc \notin {"idle", "done"}) ~>
         (call[c].pc = "done" /\ call[c].outcome \in {"ok", "cancelled"})
  /\ (cacheLock # "free") ~> (cacheLock = "free")

\* a call waits for the cache lock that another call holds
CallsEndWitness ==
  \E c, d \in Callers :
    /\ c # d
    /\ call[c].pc = "ensure_lock"
    /\ cacheLock = d
    /\ call[d].pc = "ensure_add"

============================================================================
